---- MODULE Spec2Model ----
(***************************************************************************)
(* photag: a photo catalog that reconciles an import manifest with the     *)
(* persisted photo/group records and regenerates two JPEG derivatives per  *)
(* photo when the source file is judged stale.                             *)
(*                                                                         *)
(* Sources modelled: src/src/photodata.rs (records, conversions, the two   *)
(* merges, EXIF extraction), src/src/save.rs (timestamps, time store),     *)
(* src/src/gui.rs (PhotagApp::new, PhotagApp::update, on_close_event,      *)
(* save_file).                                                             *)
(***************************************************************************)
EXTENDS Integers, Sequences, FiniteSets, TLC

(***************************************************************************)
(* Bounds of the model.                                                    *)
(***************************************************************************)
\* longest import manifest an external edit or the initial disk may hold
MaxManifest == 2
\* how many frames (calls of PhotagApp::update) a session has
MaxFrames == 3
\* how many times the environment acts: the clock advances, the manifest or a
\* source file is changed
MaxEnvEvents == 2
\* the instants (seconds after startup) at which the clock is observed
Instants == {0, 30, 420}
\* the files of the original-image folder that change during a session
ChangingFiles == {"IMG1.JPG"}
\* how many optional fields of a sampled record are absent or empty
MaxUnset == 2
\* the make button is not clicked once the group id list is this long
MaxGroups == 3
\* how many frames a session runs once it is in the group editor
MaxGroupFrames == 7
\* how many metadata markers a compressed picture carries, and how long a side
\* of the resized picture is, at most
MaxMarkers == 2
MaxSide == 2

(***************************************************************************)
(* Program constants (save.rs).                                            *)
(***************************************************************************)
MINUTES == 60
SAVE_IMAGE_DIFF_TIME == MINUTES * 7
SAVE_JSON_DIFF_TIME == MINUTES

(***************************************************************************)
(* Option<String>: None is the empty tuple, Some(s) the one-element tuple. *)
(***************************************************************************)
None == <<>>
Some(s) == <<s>>
IsSome(o) == o # None
unwrap_or_default(o) == IF o = None THEN "" ELSE o[1]
\* `if s.is_empty() { None } else { Some(s) }`
non_empty_opt(s) == IF s = "" THEN None ELSE Some(s)

\* the names of the optional fields of PhotoData, in declaration order
OptFields ==
  {"title", "year", "month", "day", "hour", "minutes", "body", "lens",
   "time", "focal_length", "f_value", "iso"}

(***************************************************************************)
(* photodata.rs: conversions between PhotoData and GUIPhotoData.           *)
(***************************************************************************)
\* a variant without the `is_empty` test of the title
gui_photo_data_to_photo_data_keeps_empty(g) ==
  [file_name |-> g.file_name,
   photo_id |-> g.photo_id,
   photo_src |-> g.photo_src,
   photo_lazy_src |-> g.photo_lazy_src,
   alt |-> g.alt,
   title |-> Some(g.title),
   year |-> non_empty_opt(g.year),
   month |-> non_empty_opt(g.month),
   day |-> non_empty_opt(g.day),
   hour |-> non_empty_opt(g.hour),
   minutes |-> non_empty_opt(g.minutes),
   body |-> non_empty_opt(g.body),
   lens |-> non_empty_opt(g.lens),
   time |-> non_empty_opt(g.time),
   focal_length |-> non_empty_opt(g.focal_length),
   f_value |-> non_empty_opt(g.f_value),
   iso |-> non_empty_opt(g.iso),
   location |-> g.location]

gui_photo_data_to_photo_data(g) ==
  [file_name |-> g.file_name,
   photo_id |-> g.photo_id,
   photo_src |-> g.photo_src,
   photo_lazy_src |-> g.photo_lazy_src,
   alt |-> g.alt,
   title |-> non_empty_opt(g.title),
   year |-> non_empty_opt(g.year),
   month |-> non_empty_opt(g.month),
   day |-> non_empty_opt(g.day),
   hour |-> non_empty_opt(g.hour),
   minutes |-> non_empty_opt(g.minutes),
   body |-> non_empty_opt(g.body),
   lens |-> non_empty_opt(g.lens),
   time |-> non_empty_opt(g.time),
   focal_length |-> non_empty_opt(g.focal_length),
   f_value |-> non_empty_opt(g.f_value),
   iso |-> non_empty_opt(g.iso),
   location |-> g.location]

photo_data_to_gui_photo_data(p) ==
  [file_name |-> p.file_name,
   photo_id |-> p.photo_id,
   photo_src |-> p.photo_src,
   photo_lazy_src |-> p.photo_lazy_src,
   alt |-> p.alt,
   title |-> unwrap_or_default(p.title),
   year |-> unwrap_or_default(p.year),
   month |-> unwrap_or_default(p.month),
   day |-> unwrap_or_default(p.day),
   hour |-> unwrap_or_default(p.hour),
   minutes |-> unwrap_or_default(p.minutes),
   body |-> unwrap_or_default(p.body),
   lens |-> unwrap_or_default(p.lens),
   time |-> unwrap_or_default(p.time),
   focal_length |-> unwrap_or_default(p.focal_length),
   f_value |-> unwrap_or_default(p.f_value),
   iso |-> unwrap_or_default(p.iso),
   location |-> p.location]

gui_photo_data_to_import_photo_data(g) ==
  [file_name |-> g.file_name,
   id |-> g.photo_id,
   alt |-> g.alt,
   location |-> g.location]

(***************************************************************************)
(* photodata.rs: group records.                                            *)
(***************************************************************************)
gui_group_data_to_group_data(g) ==
  [group_id |-> g.group_id,
   photo_id_list |-> g.photo_id_list,
   year |-> non_empty_opt(g.year),
   month |-> non_empty_opt(g.month),
   day |-> non_empty_opt(g.day),
   hour |-> non_empty_opt(g.hour),
   minutes |-> non_empty_opt(g.minutes),
   title |-> g.title,
   description |-> g.description,
   location |-> non_empty_opt(g.location)]

group_data_to_gui_group_data(g) ==
  [group_id |-> g.group_id,
   photo_id_list |-> g.photo_id_list,
   year |-> unwrap_or_default(g.year),
   month |-> unwrap_or_default(g.month),
   day |-> unwrap_or_default(g.day),
   hour |-> unwrap_or_default(g.hour),
   minutes |-> unwrap_or_default(g.minutes),
   title |-> g.title,
   description |-> g.description,
   location |-> unwrap_or_default(g.location)]

make_dummy_gui_group_data ==
  [group_id |-> "", photo_id_list |-> <<>>, year |-> "", month |-> "",
   day |-> "", hour |-> "", minutes |-> "", title |-> "",
   description |-> "", location |-> ""]

(***************************************************************************)
(* HashMap<String, V> as a function on a finite set of strings.            *)
(***************************************************************************)
EmptyMap == <<>>
HasKey(m, k) == k \in DOMAIN m
Insert(m, k, v) == [x \in (DOMAIN m) \cup {k} |-> IF x = k THEN v ELSE m[x]]

(***************************************************************************)
(* photodata.rs: EXIF extraction.  A source file's EXIF content is a       *)
(* record of the tags parse_exif_data reads: date_time_original is None or *)
(* Some of the decoded DateTime, the others None or Some of the displayed  *)
(* tag value.  parse_exif_data answers [ok |-> FALSE] on Err.              *)
(***************************************************************************)
ExifErr == [ok |-> FALSE]

parse_exif_tags(tags) ==
  LET dt == tags.date_time_original
      present == dt # None
      maker == tags.lens_make
      model == tags.lens_model
  IN [ok |-> TRUE,
      val |->
        [year |-> IF present THEN Some(dt[1].year) ELSE None,
         month |-> IF present THEN Some(dt[1].month) ELSE None,
         day |-> IF present THEN Some(dt[1].hour) ELSE None,
         hour |-> IF present THEN Some(dt[1].hour) ELSE None,
         minutes |-> IF present THEN Some(dt[1].minute) ELSE None,
         body |-> None,
         lens |-> IF maker # None /\ model # None
                    THEN Some(maker[1] \o " " \o model[1])
                    ELSE IF maker = None /\ model # None THEN model ELSE None,
         time |-> tags.shutter_speed,
         focal_length |-> tags.focal_length,
         f_value |-> tags.f_number,
         iso |-> tags.iso_speed]]

\* a file on disk: [readable, created, modified, exif]; created and modified
\* are None or Some(instant), exif is None when the file holds no parsable EXIF
\* and Some(tags) otherwise
parse_exif_data(file) ==
  IF ~file.readable \/ file.exif = None
    THEN ExifErr
    ELSE parse_exif_tags(file.exif[1])

(***************************************************************************)
(* The original-image folder: a function from file name to file.           *)
(***************************************************************************)
MissingFile == [readable |-> FALSE, created |-> None, modified |-> None, exif |-> None]
file_at(files, name) == IF name \in DOMAIN files THEN files[name] ELSE MissingFile

photo_src_of(id) == "/images/normal/" \o id \o ".JPG"
photo_lazy_src_of(id) == "/images/lazy/" \o id \o ".JPG"

(***************************************************************************)
(* photodata.rs: load_photo_data_opt.  The persisted list becomes a map    *)
(* keyed by each record's photo_id; a later record replaces an earlier one *)
(* with the same photo_id.  An absent file gives the empty map.            *)
(***************************************************************************)
RECURSIVE photo_list_to_map(_, _)
photo_list_to_map(lst, acc) ==
  IF lst = <<>> THEN acc
  ELSE photo_list_to_map(Tail(lst), Insert(acc, Head(lst).photo_id, Head(lst)))

load_photo_data_opt(store) ==
  IF store.state = "ok" THEN photo_list_to_map(store.data, EmptyMap) ELSE EmptyMap

(***************************************************************************)
(* photodata.rs: merge_photo_data_based_and_import_photo_data, the startup *)
(* reconciliation.  merge_photo_record is the body of its loop.            *)
(***************************************************************************)
merge_photo_existing(existing, imp) ==
  [existing EXCEPT !.file_name = imp.file_name,
                   !.photo_id = imp.id,
                   !.photo_src = photo_src_of(imp.id),
                   !.photo_lazy_src = photo_lazy_src_of(imp.id),
                   !.alt = imp.alt,
                   !.location = imp.location]

merge_photo_new(imp, exif) ==
  IF exif.ok
    THEN [file_name |-> imp.file_name,
          photo_id |-> imp.id,
          photo_src |-> photo_src_of(imp.id),
          photo_lazy_src |-> photo_lazy_src_of(imp.id),
          alt |-> imp.alt,
          title |-> None,
          year |-> exif.val.year,
          month |-> exif.val.month,
          day |-> exif.val.day,
          hour |-> exif.val.hour,
          minutes |-> exif.val.minutes,
          body |-> exif.val.body,
          lens |-> exif.val.lens,
          time |-> exif.val.time,
          focal_length |-> exif.val.focal_length,
          f_value |-> exif.val.f_value,
          iso |-> exif.val.iso,
          location |-> imp.location]
    ELSE [file_name |-> imp.file_name,
          photo_id |-> "",
          photo_src |-> photo_src_of(imp.id),
          photo_lazy_src |-> photo_lazy_src_of(imp.id),
          alt |-> imp.alt,
          title |-> None, year |-> None, month |-> None, day |-> None,
          hour |-> None, minutes |-> None, body |-> None, lens |-> None,
          time |-> None, focal_length |-> None, f_value |-> None,
          iso |-> None,
          location |-> imp.location]

merge_photo_record(original, imp, files) ==
  IF HasKey(original, imp.id)
    THEN merge_photo_existing(original[imp.id], imp)
    ELSE merge_photo_new(imp, parse_exif_data(file_at(files, imp.file_name)))

\* a variant that walks the import records from the last to the first
merge_photo_data_backwards(original, import_lst, files) ==
  [ids |-> [i \in 1..Len(import_lst) |-> import_lst[Len(import_lst) + 1 - i].id],
   data |-> [i \in 1..Len(import_lst) |->
               merge_photo_record(original, import_lst[Len(import_lst) + 1 - i], files)]]

merge_photo_data_based_and_import_photo_data(original, import_lst, files) ==
  [ids |-> [i \in 1..Len(import_lst) |-> import_lst[i].id],
   data |-> [i \in 1..Len(import_lst) |->
               merge_photo_record(original, import_lst[i], files)]]

(***************************************************************************)
(* photodata.rs: merge_gui_photo_data_based_and_import_photo_data, the     *)
(* periodic reconciliation.  The photo map is updated in place, one import *)
(* record after the other; the groups are filtered against the map as it   *)
(* stands after the loop.                                                  *)
(***************************************************************************)
\* a variant that rebuilds the record from the import record and drops the title
merge_gui_existing_drops_title(existing, imp) ==
  [existing EXCEPT !.file_name = imp.file_name,
                   !.photo_id = imp.id,
                   !.photo_src = photo_src_of(imp.id),
                   !.photo_lazy_src = photo_lazy_src_of(imp.id),
                   !.alt = imp.alt,
                   !.title = "",
                   !.location = imp.location]

merge_gui_existing(existing, imp) ==
  [existing EXCEPT !.file_name = imp.file_name,
                   !.photo_id = imp.id,
                   !.photo_src = photo_src_of(imp.id),
                   !.photo_lazy_src = photo_lazy_src_of(imp.id),
                   !.alt = imp.alt,
                   !.location = imp.location]

\* a variant whose failure path does not take alt from the import record
merge_gui_new_fails_bare(imp, exif) ==
  IF exif.ok
    THEN [file_name |-> imp.file_name,
          photo_id |-> imp.id,
          photo_src |-> photo_src_of(imp.id),
          photo_lazy_src |-> photo_lazy_src_of(imp.id),
          alt |-> imp.alt,
          title |-> "",
          year |-> unwrap_or_default(exif.val.year),
          month |-> unwrap_or_default(exif.val.month),
          day |-> unwrap_or_default(exif.val.day),
          hour |-> unwrap_or_default(exif.val.hour),
          minutes |-> unwrap_or_default(exif.val.minutes),
          body |-> unwrap_or_default(exif.val.body),
          lens |-> unwrap_or_default(exif.val.lens),
          time |-> unwrap_or_default(exif.val.time),
          focal_length |-> unwrap_or_default(exif.val.focal_length),
          f_value |-> unwrap_or_default(exif.val.f_value),
          iso |-> unwrap_or_default(exif.val.iso),
          location |-> imp.location]
    ELSE [file_name |-> imp.file_name,
          photo_id |-> "",
          photo_src |-> photo_src_of(imp.id),
          photo_lazy_src |-> photo_lazy_src_of(imp.id),
          alt |-> "",
          title |-> "", year |-> "", month |-> "", day |-> "", hour |-> "",
          minutes |-> "", body |-> "", lens |-> "", time |-> "",
          focal_length |-> "", f_value |-> "", iso |-> "",
          location |-> imp.location]

merge_gui_new(imp, exif) ==
  IF exif.ok
    THEN [file_name |-> imp.file_name,
          photo_id |-> imp.id,
          photo_src |-> photo_src_of(imp.id),
          photo_lazy_src |-> photo_lazy_src_of(imp.id),
          alt |-> imp.alt,
          title |-> "",
          year |-> unwrap_or_default(exif.val.year),
          month |-> unwrap_or_default(exif.val.month),
          day |-> unwrap_or_default(exif.val.day),
          hour |-> unwrap_or_default(exif.val.hour),
          minutes |-> unwrap_or_default(exif.val.minutes),
          body |-> unwrap_or_default(exif.val.body),
          lens |-> unwrap_or_default(exif.val.lens),
          time |-> unwrap_or_default(exif.val.time),
          focal_length |-> unwrap_or_default(exif.val.focal_length),
          f_value |-> unwrap_or_default(exif.val.f_value),
          iso |-> unwrap_or_default(exif.val.iso),
          location |-> imp.location]
    ELSE [file_name |-> imp.file_name,
          photo_id |-> "",
          photo_src |-> photo_src_of(imp.id),
          photo_lazy_src |-> photo_lazy_src_of(imp.id),
          alt |-> imp.alt,
          title |-> "", year |-> "", month |-> "", day |-> "", hour |-> "",
          minutes |-> "", body |-> "", lens |-> "", time |-> "",
          focal_length |-> "", f_value |-> "", iso |-> "",
          location |-> imp.location]

merge_gui_record(photos, imp, files) ==
  IF HasKey(photos, imp.id)
    THEN merge_gui_existing(photos[imp.id], imp)
    ELSE merge_gui_new(imp, parse_exif_data(file_at(files, imp.file_name)))

RECURSIVE merge_gui_photos(_, _, _)
merge_gui_photos(photos, import_lst, files) ==
  IF import_lst = <<>> THEN photos
  ELSE merge_gui_photos(
         Insert(photos, Head(import_lst).id,
                merge_gui_record(photos, Head(import_lst), files)),
         Tail(import_lst), files)

\* the membership filter of one group
retain_existing(photo_id_list, photos) ==
  SelectSeq(photo_id_list, LAMBDA id : HasKey(photos, id))

merge_gui_groups(groups, photos) ==
  [g \in DOMAIN groups |->
     [groups[g] EXCEPT !.photo_id_list = retain_existing(@, photos)]]

merge_gui_photo_data_based_and_import_photo_data(photos, groups, import_lst, files) ==
  LET new_photos == merge_gui_photos(photos, import_lst, files)
  IN [photos |-> new_photos, groups |-> merge_gui_groups(groups, new_photos)]

(***************************************************************************)
(* save.rs: get_file_timestamp reads the creation time of the file; None   *)
(* when the metadata or the creation time cannot be read.                  *)
(***************************************************************************)
get_file_timestamp(file) ==
  IF file.readable THEN file.created ELSE None

(***************************************************************************)
(* gui.rs: the staleness decision of a derivative pass (the nested         *)
(* `if let Some(time)` / `match time_stamp` / `time < &time_stamp`).       *)
(***************************************************************************)
\* a variant that also takes a stored timestamp equal to the file's as stale
is_stale_when_equal(times, key, time_stamp) ==
  IF HasKey(times, key)
    THEN IF time_stamp # None THEN times[key] <= time_stamp[1] ELSE TRUE
    ELSE TRUE

is_stale(times, key, time_stamp) ==
  IF HasKey(times, key)
    THEN IF time_stamp # None THEN times[key] < time_stamp[1] ELSE TRUE
    ELSE TRUE

(***************************************************************************)
(* State.                                                                  *)
(***************************************************************************)
VARIABLES
  pc,                   \* "init", "idle", "image", "loop", "ui", "closed", "crashed"
  now,                  \* the wall clock, save::get_now()
  \* ---- the disk
  manifest,             \* the import manifest file (input_json_path)
  photo_store,          \* {work}/photo_data.json
  group_store,          \* {work}/group_data.json
  time_store,           \* {work}/time.json
  files,                \* the original-image folder
  derived,              \* {work}/images/{lazy,normal}/{id}.JPG, by id
  \* ---- PhotagApp
  mode,
  photo_id_lst,
  gui_photo_data_lst,
  group_id_lst,
  gui_group_data_lst,
  thumbnail_lst,
  now_id,
  dummy_group_data,     \* the form of the group that is being created
  image_save_time_lst,
  json_save_time,
  image_save_time,
  \* ---- position inside PhotagApp::update
  todo,                 \* keys of gui_photo_data_lst the derivative loop has still to visit
  last_op,              \* what the last step of the program did
  last_step,            \* the iteration of the derivative loop just made:
                        \* [id, key, known, time_stamp, stale]
  env_events,           \* how many times the environment has changed the disk
  frames,               \* how many frames the session has had
  \* ---- the conversions of photodata.rs applied to one record
  conv,                 \* [dir, input, stage, mid, out]
  \* ---- one call of image::compression
  codec                 \* [stage, input, markers, width, height, line, rest, calls]

disk == <<manifest, photo_store, group_store, time_store, files, derived>>
app == <<mode, photo_id_lst, gui_photo_data_lst, group_id_lst, gui_group_data_lst,
         thumbnail_lst, now_id, image_save_time_lst, json_save_time, image_save_time>>
vars == <<pc, now, disk, app, dummy_group_data, todo, last_op, last_step, env_events,
          frames, conv, codec>>

(***************************************************************************)
(* The inputs the model draws from.                                        *)
(***************************************************************************)
PhotoIds == {"p1", "p2"}
FileNames == {"IMG1.JPG", "IMG2.JPG"}

Tags1 ==
  [date_time_original |->
     Some([year |-> "2023", month |-> "5", day |-> "14", hour |-> "9", minute |-> "30"]),
   lens_make |-> Some("SIGMA"),
   lens_model |-> Some("30mm F1.4"),
   shutter_speed |-> Some("1/250"),
   focal_length |-> Some("30"),
   f_number |-> Some("2.8"),
   iso_speed |-> Some("100")]

Tags2 ==
  [date_time_original |-> None,
   lens_make |-> Some("TAMRON"),
   lens_model |-> None,
   shutter_speed |-> None,
   focal_length |-> Some("50"),
   f_number |-> None,
   iso_speed |-> None]

\* the import records an external editor of the manifest writes
ImportRecs ==
  {[file_name |-> "IMG1.JPG", id |-> "p1", alt |-> "lake", location |-> "X"],
   [file_name |-> "IMG2.JPG", id |-> "p1", alt |-> "pond", location |-> "Y"],
   [file_name |-> "IMG2.JPG", id |-> "p2", alt |-> "hill", location |-> "X"]}

\* ImportPhotoData.id is a unique id (photodata.rs:180): no id twice
UniqueIds(lst) == \A i, j \in 1..Len(lst) : lst[i].id = lst[j].id => i = j

Manifests ==
  {m \in UNION {[1..n -> ImportRecs] : n \in 0..MaxManifest} : UniqueIds(m)}

\* the instant before the session at which an earlier session wrote its files
PastTime == 0 - 30

StoredP1 ==
  [file_name |-> "IMG1.JPG", photo_id |-> "p1",
   photo_src |-> "/images/normal/p1.JPG", photo_lazy_src |-> "/images/lazy/p1.JPG",
   alt |-> "lake", title |-> Some("Sunset"),
   year |-> Some("2021"), month |-> None, day |-> None, hour |-> None,
   minutes |-> None, body |-> Some("X-T3"), lens |-> None, time |-> None,
   focal_length |-> None, f_value |-> None, iso |-> Some("200"),
   location |-> "X"]

StoredP2 ==
  [file_name |-> "IMG2.JPG", photo_id |-> "p2",
   photo_src |-> "/images/normal/p2.JPG", photo_lazy_src |-> "/images/lazy/p2.JPG",
   alt |-> "hill", title |-> None,
   year |-> None, month |-> None, day |-> None, hour |-> None,
   minutes |-> None, body |-> None, lens |-> Some("TAMRON 50mm"), time |-> None,
   focal_length |-> None, f_value |-> None, iso |-> None,
   location |-> "X"]

StoredG1 ==
  [group_id |-> "g1", photo_id_list |-> <<"p1", "p3", "p2">>,
   year |-> None, month |-> None, day |-> None, hour |-> None, minutes |-> None,
   title |-> "Trip", description |-> "summer", location |-> None]

Absent == [state |-> "absent", data |-> <<>>]
\* a file that exists and does not hold the JSON the loader expects
Unparsable == [state |-> "unparsable", data |-> <<>>]
Stored(data) == [state |-> "ok", data |-> data]

\* the work directory at startup: empty on a first run, or as an earlier session
\* left it: [photo_store, group_store, time_store]
InitWorkDirs ==
  {[photo_store |-> Absent, group_store |-> Absent, time_store |-> Absent],
   [photo_store |-> Stored(<<StoredP2, StoredP1>>), group_store |-> Stored(<<StoredG1>>),
    time_store |-> Stored([k \in {"p1"} |-> PastTime])],
   [photo_store |-> Absent, group_store |-> Absent, time_store |-> Unparsable]}

\* the original-image folder at startup: IMG1.JPG with or without EXIF, and with
\* a creation time from CreatedAtInit
SourceFiles(CreatedAtInit) ==
  {[f \in FileNames |->
      IF f = "IMG1.JPG"
        THEN [readable |-> TRUE, created |-> c, modified |-> c, exif |-> e]
        ELSE [readable |-> TRUE, created |-> Some(PastTime), modified |-> Some(PastTime),
              exif |-> Some(Tags2)]] :
     c \in CreatedAtInit, e \in {None, Some(Tags1)}}

NoStep == [id |-> "", key |-> "", known |-> FALSE, time_stamp |-> None, stale |-> FALSE]
\* no call of image::compression is under way
NoCodec ==
  [stage |-> "none", input |-> <<>>, markers |-> <<>>, width |-> 0, height |-> 0,
   line |-> 0, rest |-> <<>>, calls |-> <<>>]

NoConv == [dir |-> "none", input |-> <<>>, stage |-> 0, mid |-> <<>>, out |-> <<>>]

InitWith(start, manifests, work_dirs, folders, convs, codecs) ==
  /\ pc = start
  /\ now = 0
  /\ manifest \in manifests
  /\ \E w \in work_dirs :
       /\ photo_store = w.photo_store
       /\ group_store = w.group_store
       /\ time_store = w.time_store
  /\ files \in folders
  /\ derived = EmptyMap
  /\ mode = "EditPhotoData"
  /\ photo_id_lst = <<>>
  /\ gui_photo_data_lst = EmptyMap
  /\ group_id_lst = <<>>
  /\ gui_group_data_lst = EmptyMap
  /\ thumbnail_lst = EmptyMap
  /\ now_id = ""
  /\ dummy_group_data = make_dummy_gui_group_data
  /\ image_save_time_lst = EmptyMap
  /\ json_save_time = 0
  /\ image_save_time = 0
  /\ todo = {}
  /\ last_op = "none"
  /\ last_step = NoStep
  /\ env_events = 0
  /\ frames = 0
  /\ conv \in convs
  /\ codec \in codecs

(***************************************************************************)
(* Loading the stores (photodata.rs, save.rs): an absent file is empty.    *)
(***************************************************************************)
\* `serde_json::from_reader(reader).unwrap()` of load_photo_data_opt and
\* get_time_info_lst, and the `?` of load_group_data_from_work_directory that
\* PhotagApp::new unwraps: the program aborts on a file it cannot parse
load_panics(store) == store.state = "unparsable"

load_group_data_from_work_directory(store) ==
  IF store.state = "absent" THEN <<>> ELSE store.data

get_time_info_lst(store) ==
  IF store.state = "ok" THEN store.data ELSE EmptyMap

(***************************************************************************)
(* gui.rs: PhotagApp::new.                                                 *)
(***************************************************************************)
\* lines 96-102: the photo map is keyed by each merged record's photo_id
RECURSIVE new_gui_photo_data_lst(_, _)
new_gui_photo_data_lst(photo_data_lst, acc) ==
  IF photo_data_lst = <<>> THEN acc
  ELSE new_gui_photo_data_lst(
         Tail(photo_data_lst),
         Insert(acc, Head(photo_data_lst).photo_id,
                photo_data_to_gui_photo_data(Head(photo_data_lst))))

\* lines 105-113
RECURSIVE new_gui_group_data_lst(_, _)
new_gui_group_data_lst(group_data_lst, acc) ==
  IF group_data_lst = <<>> THEN acc
  ELSE new_gui_group_data_lst(
         Tail(group_data_lst),
         Insert(acc, Head(group_data_lst).group_id,
                group_data_to_gui_group_data(Head(group_data_lst))))

\* where the two derivative files of `id` are written, relative to the work
\* directory: format!("{}/images/lazy/{}.JPG", work_directory_path, id)
lazy_path_of(id) == "images/lazy/" \o id \o ".JPG"
normal_path_of(id) == "images/normal/" \o id \o ".JPG"

\* what a derivative file was made of
FromOriginal(file_name) == [from |-> "original", file |-> file_name]
FromThumbnail(file_name) == [from |-> "thumbnail", file |-> file_name]

\* lines 116-197: one import record after the other; open_file(..).unwrap()
\* aborts the program on an unreadable source file
RECURSIVE new_image_loop(_, _, _)
new_image_loop(import_lst, acc, t) ==
  IF import_lst = <<>> THEN acc
  ELSE LET imp == Head(import_lst)
           file == file_at(files, imp.file_name)
           stale == is_stale(acc.times, imp.id, get_file_timestamp(file))
       IN IF ~file.readable
            THEN [acc EXCEPT !.ok = FALSE]
            ELSE new_image_loop(
                   Tail(import_lst),
                   [ok |-> TRUE,
                    times |-> IF stale THEN Insert(acc.times, imp.id, t) ELSE acc.times,
                    derived |-> IF stale
                                  THEN Insert(acc.derived, imp.id, FromOriginal(imp.file_name))
                                  ELSE acc.derived,
                    thumbs |-> Insert(acc.thumbs, imp.id, imp.file_name)],
                   t)

New ==
  /\ pc = "init"
  /\ LET merged == merge_photo_data_based_and_import_photo_data(
                     load_photo_data_opt(photo_store), manifest, files)
         group_data_lst == load_group_data_from_work_directory(group_store)
         images == new_image_loop(
                     manifest,
                     [ok |-> TRUE, times |-> get_time_info_lst(time_store),
                      derived |-> derived, thumbs |-> EmptyMap],
                     now)
         loaded == /\ ~load_panics(photo_store)
                   /\ ~load_panics(group_store)
                   /\ ~load_panics(time_store)
     IN /\ derived' = IF loaded THEN images.derived ELSE derived
        /\ IF loaded /\ images.ok
             THEN /\ pc' = "idle"
                  /\ last_op' = "startup"
                  /\ mode' = "EditPhotoData"
                  /\ photo_id_lst' = merged.ids
                  /\ gui_photo_data_lst' = new_gui_photo_data_lst(merged.data, EmptyMap)
                  /\ group_id_lst' = [i \in 1..Len(group_data_lst) |-> group_data_lst[i].group_id]
                  /\ gui_group_data_lst' = new_gui_group_data_lst(group_data_lst, EmptyMap)
                  /\ thumbnail_lst' = images.thumbs
                  /\ now_id' = ""
                  /\ image_save_time_lst' = images.times
                  /\ json_save_time' = now
                  /\ image_save_time' = now
             ELSE /\ pc' = "crashed"
                  /\ last_op' = "panic"
                  /\ UNCHANGED app
  /\ UNCHANGED <<codec, dummy_group_data, conv, now, manifest, photo_store, group_store, time_store, files, todo, last_step, env_events, frames>>

(***************************************************************************)
(* gui.rs: save_file and the three make_*_json_str.  Each list is walked   *)
(* in order and `.get(id).unwrap()` aborts the program on an id without a  *)
(* record; the photo store is written before the group list is walked.     *)
(***************************************************************************)
make_photo_data_json_str(id_lst, photos) ==
  [i \in 1..Len(id_lst) |-> gui_photo_data_to_photo_data(photos[id_lst[i]])]

make_import_photo_data_json_str(id_lst, photos) ==
  [i \in 1..Len(id_lst) |-> gui_photo_data_to_import_photo_data(photos[id_lst[i]])]

make_group_data_json_str(id_lst, groups) ==
  [i \in 1..Len(id_lst) |-> gui_group_data_to_group_data(groups[id_lst[i]])]

AllKeys(id_lst, m) == \A i \in 1..Len(id_lst) : HasKey(m, id_lst[i])

\* the disk after save_file: [ok, photo_store, group_store, manifest]
save_file(id_lst, photos, gid_lst, groups) ==
  IF ~AllKeys(id_lst, photos)
    THEN [ok |-> FALSE, photo_store |-> photo_store, group_store |-> group_store,
          manifest |-> manifest]
  ELSE IF ~AllKeys(gid_lst, groups)
    THEN [ok |-> FALSE,
          photo_store |-> Stored(make_photo_data_json_str(id_lst, photos)),
          group_store |-> group_store, manifest |-> manifest]
  ELSE [ok |-> TRUE,
        photo_store |-> Stored(make_photo_data_json_str(id_lst, photos)),
        group_store |-> Stored(make_group_data_json_str(gid_lst, groups)),
        manifest |-> make_import_photo_data_json_str(id_lst, photos)]

\* save.rs: save_time_info_lst
save_time_info_lst(times) == Stored(times)

(***************************************************************************)
(* gui.rs: PhotagApp::update, the metadata-refresh trigger (lines 267-304).*)
(* The merge updates the photo map in place; the merged groups are only    *)
(* handed to save_file.  The manifest file is there, with a readable       *)
(* creation time, in every frame of the sessions followed, so              *)
(* `get_file_timestamp(input_json_path)` is `Some(timestamp)`; the value   *)
(* of `timestamp` is bound and never used (line 272), and nothing of an    *)
(* earlier reading is kept to compare it with.                             *)
(***************************************************************************)
\* the number of frames after which the session is not followed further
FrameCap == IF mode = "EditGroupData" THEN MaxGroupFrames ELSE MaxFrames

json_trigger == json_save_time + SAVE_JSON_DIFF_TIME > now
image_trigger == image_save_time + SAVE_IMAGE_DIFF_TIME > now

MetadataRefresh ==
  /\ pc = "idle"
  /\ frames < FrameCap
  /\ frames' = frames + 1
  /\ json_trigger
  /\ LET merged == merge_gui_photo_data_based_and_import_photo_data(
                     gui_photo_data_lst, gui_group_data_lst, manifest, files)
         saved == save_file(photo_id_lst, merged.photos, group_id_lst, merged.groups)
     IN /\ gui_photo_data_lst' = merged.photos
        /\ photo_store' = saved.photo_store
        /\ group_store' = saved.group_store
        /\ manifest' = saved.manifest
        /\ IF saved.ok
             THEN /\ pc' = "image"
                  /\ last_op' = "reconciled"
                  /\ json_save_time' = now
             ELSE /\ pc' = "crashed"
                  /\ last_op' = "panic"
                  /\ UNCHANGED json_save_time
  /\ UNCHANGED <<codec, dummy_group_data, conv, now, time_store, files, derived, mode, photo_id_lst, group_id_lst,
                 gui_group_data_lst, thumbnail_lst, now_id, image_save_time_lst,
                 image_save_time, todo, last_step, env_events>>

MetadataSkip ==
  /\ pc = "idle"
  /\ frames < FrameCap
  /\ frames' = frames + 1
  /\ ~json_trigger
  /\ pc' = "image"
  /\ last_op' = "no_refresh"
  /\ UNCHANGED <<codec, dummy_group_data, conv, now, disk, app, todo, last_step, env_events>>

(***************************************************************************)
(* gui.rs: PhotagApp::update, the derivative-refresh trigger (306-372).    *)
(* The loop walks the photo map in the map's own order: any order.         *)
(***************************************************************************)
DerivativeBegin ==
  /\ pc = "image"
  /\ image_trigger
  /\ pc' = "loop"
  /\ todo' = DOMAIN gui_photo_data_lst
  /\ last_op' = "pass_begin"
  /\ UNCHANGED <<codec, dummy_group_data, conv, now, disk, app, last_step, env_events, frames>>

DerivativeSkip ==
  /\ pc = "image"
  /\ ~image_trigger
  /\ pc' = "ui"
  /\ last_op' = "no_pass"
  /\ UNCHANGED <<codec, dummy_group_data, conv, now, disk, app, todo, last_step, env_events, frames>>

\* the key under which the loop looks the record up in image_save_time_lst
lookup_key(id, gui_photo_data) == gui_photo_data.photo_id
\* the key under which the loop marks the record fresh
mark_key(id, gui_photo_data) == id

DerivativeStep ==
  /\ pc = "loop"
  /\ \E id \in todo :
       LET gui_photo_data == gui_photo_data_lst[id]
           file == file_at(files, gui_photo_data.file_name)
           key == lookup_key(id, gui_photo_data)
           known == HasKey(image_save_time_lst, key)
           stale == is_stale(image_save_time_lst, key, get_file_timestamp(file))
           \* thumbnail_lst.get(id).unwrap() / image::open_file(..).unwrap()
           panics == stale /\ IF known THEN ~HasKey(thumbnail_lst, id) ELSE ~file.readable
       IN /\ todo' = todo \ {id}
          /\ last_step' = [id |-> id, key |-> key, known |-> known,
                           time_stamp |-> get_file_timestamp(file), stale |-> stale]
          /\ IF panics
               THEN /\ pc' = "crashed"
                    /\ last_op' = "panic"
                    /\ UNCHANGED <<derived, thumbnail_lst, image_save_time_lst>>
             ELSE IF stale
               THEN /\ pc' = "loop"
                    /\ last_op' = "regenerated"
                    /\ derived' =
                         Insert(derived, id,
                                IF known THEN FromThumbnail(thumbnail_lst[id])
                                ELSE FromOriginal(gui_photo_data.file_name))
                    /\ thumbnail_lst' =
                         IF known THEN thumbnail_lst
                         ELSE Insert(thumbnail_lst, id, gui_photo_data.file_name)
                    /\ image_save_time_lst' =
                         Insert(image_save_time_lst, mark_key(id, gui_photo_data), now)
             ELSE /\ pc' = "loop"
                  /\ last_op' = "fresh"
                  /\ UNCHANGED <<derived, thumbnail_lst, image_save_time_lst>>
  /\ UNCHANGED <<codec, dummy_group_data, conv, now, manifest, photo_store, group_store, time_store, files, mode,
                 photo_id_lst, gui_photo_data_lst, group_id_lst, gui_group_data_lst,
                 now_id, json_save_time, image_save_time, env_events, frames>>

DerivativeEnd ==
  /\ pc = "loop"
  /\ todo = {}
  /\ pc' = "ui"
  /\ last_op' = "pass_end"
  /\ time_store' = save_time_info_lst(image_save_time_lst)
  /\ image_save_time' = now
  /\ last_step' = NoStep
  /\ UNCHANGED <<codec, dummy_group_data, conv, now, manifest, photo_store, group_store, files, derived, mode,
                 photo_id_lst, gui_photo_data_lst, group_id_lst, gui_group_data_lst,
                 thumbnail_lst, now_id, image_save_time_lst, json_save_time, todo,
                 env_events, frames>>

(***************************************************************************)
(* gui.rs: PhotagApp::update, the panels (lines 374-666): one input event  *)
(* per frame.  In EditPhotoData mode with a selected id the central panel  *)
(* reads `gui_photo_data_lst.get(now_id).unwrap()` in every frame and      *)
(* writes the (possibly edited) record back.                               *)
(***************************************************************************)
\* the edits of the text fields the model lets the user make
PhotoEdits == {<<"title", "Sunset">>}

\* lines 733-747: for every group of the list, whether the photo is a member
make_group_check_lst(id, gid_lst, groups) ==
  [i \in 1..Len(gid_lst) |->
     [group_id |-> gid_lst[i],
      is_check |-> \E j \in 1..Len(groups[gid_lst[i]].photo_id_list) :
                     groups[gid_lst[i]].photo_id_list[j] = id]]

\* lines 758-785: the loop over check_lst; `updated` is update_group_id_lst
RECURSIVE update_group_members(_, _, _, _)
update_group_members(photo_id, check_lst, groups, updated) ==
  IF check_lst = <<>> THEN [groups |-> groups, updated |-> updated]
  ELSE LET c == Head(check_lst)
           lst == groups[c.group_id].photo_id_list
           has == \E j \in 1..Len(lst) : lst[j] = photo_id
           new_lst == IF has /\ ~c.is_check
                        THEN SelectSeq(lst, LAMBDA x : x # photo_id)
                      ELSE IF ~has /\ c.is_check THEN Append(lst, photo_id)
                      ELSE lst
       IN update_group_members(
            photo_id, Tail(check_lst),
            Insert(groups, c.group_id, [groups[c.group_id] EXCEPT !.photo_id_list = new_lst]),
            IF ~has /\ c.is_check THEN Append(updated, c.group_id) ELSE updated)

\* lines 787-792: the groups of the list that are not yet in `updated` follow
RECURSIVE push_remaining(_, _)
push_remaining(gid_lst, updated) ==
  IF gid_lst = <<>> THEN updated
  ELSE push_remaining(
         Tail(gid_lst),
         IF \A j \in 1..Len(updated) : updated[j] # Head(gid_lst)
           THEN Append(updated, Head(gid_lst)) ELSE updated)

\* lines 751-795
update_group_data(photo_id, check_lst, gid_lst, groups) ==
  LET r == update_group_members(photo_id, check_lst, groups, <<>>)
  IN [group_id_lst |-> push_remaining(gid_lst, r.updated),
      gui_group_data_lst |-> r.groups]

\* lines 473, 527, 533, 538 and 614, 651, 654: the `unwrap()`s of the central panel
central_panel_panics(m, id) ==
  /\ id # ""
  /\ IF m = "EditPhotoData"
       THEN \/ ~HasKey(gui_photo_data_lst, id)
            \/ ~HasKey(thumbnail_lst, id)
            \/ \E i \in 1..Len(group_id_lst) : ~HasKey(gui_group_data_lst, group_id_lst[i])
       ELSE \/ ~HasKey(gui_group_data_lst, id)
            \/ \E i \in 1..Len(gui_group_data_lst[id].photo_id_list) :
                 \/ ~HasKey(gui_photo_data_lst, gui_group_data_lst[id].photo_id_list[i])
                 \/ ~HasKey(thumbnail_lst, gui_group_data_lst[id].photo_id_list[i])

\* lines 532-547: what the photo panel of photo `id` does to the groups in a
\* frame in which the check boxes of the rows `toggled` are clicked
photo_panel_groups(m, id, toggled) ==
  IF m = "EditPhotoData" /\ id # "" /\ ~central_panel_panics(m, id)
    THEN LET checks == make_group_check_lst(id, group_id_lst, gui_group_data_lst)
             clicked == [i \in 1..Len(checks) |->
                           IF i \in toggled
                             THEN [checks[i] EXCEPT !.is_check = ~checks[i].is_check]
                             ELSE checks[i]]
         IN update_group_data(id, clicked, group_id_lst, gui_group_data_lst)
    ELSE [group_id_lst |-> group_id_lst, gui_group_data_lst |-> gui_group_data_lst]

UiNoInput ==
  /\ pc = "ui"
  /\ pc' = IF central_panel_panics(mode, now_id) THEN "crashed" ELSE "idle"
  /\ last_op' = IF central_panel_panics(mode, now_id) THEN "panic" ELSE "frame"
  /\ group_id_lst' = photo_panel_groups(mode, now_id, {}).group_id_lst
  /\ gui_group_data_lst' = photo_panel_groups(mode, now_id, {}).gui_group_data_lst
  /\ UNCHANGED <<codec, dummy_group_data, conv, now, disk, mode, photo_id_lst,
                 gui_photo_data_lst, thumbnail_lst, now_id, image_save_time_lst,
                 json_save_time, image_save_time, todo, last_step, env_events, frames>>

\* lines 388-398: a click on a photo id of the side panel
SelectPhoto ==
  /\ pc = "ui"
  /\ mode = "EditPhotoData"
  /\ \E i \in 1..Len(photo_id_lst) :
       /\ now_id' = photo_id_lst[i]
       /\ mode' = "EditPhotoData"
       /\ pc' = IF central_panel_panics("EditPhotoData", photo_id_lst[i])
                  THEN "crashed" ELSE "idle"
       /\ last_op' = IF central_panel_panics("EditPhotoData", photo_id_lst[i])
                       THEN "panic" ELSE "frame"
       /\ group_id_lst' =
            photo_panel_groups("EditPhotoData", photo_id_lst[i], {}).group_id_lst
       /\ gui_group_data_lst' =
            photo_panel_groups("EditPhotoData", photo_id_lst[i], {}).gui_group_data_lst
  /\ UNCHANGED <<codec, dummy_group_data, conv, now, disk, photo_id_lst,
                 gui_photo_data_lst, thumbnail_lst, image_save_time_lst,
                 json_save_time, image_save_time, todo, last_step, env_events, frames>>

\* lines 472-548: a text field of the selected photo is edited
EditPhoto ==
  /\ pc = "ui"
  /\ mode = "EditPhotoData"
  /\ now_id # ""
  /\ HasKey(gui_photo_data_lst, now_id)
  /\ \E e \in PhotoEdits :
       /\ gui_photo_data_lst[now_id][e[1]] # e[2]
       /\ gui_photo_data_lst' =
            Insert(gui_photo_data_lst, now_id,
                   [gui_photo_data_lst[now_id] EXCEPT ![e[1]] = e[2]])
  /\ ~central_panel_panics(mode, now_id)
  /\ pc' = "idle"
  /\ last_op' = "frame"
  /\ group_id_lst' = photo_panel_groups(mode, now_id, {}).group_id_lst
  /\ gui_group_data_lst' = photo_panel_groups(mode, now_id, {}).gui_group_data_lst
  /\ UNCHANGED <<codec, dummy_group_data, conv, now, disk, mode, photo_id_lst,
                 thumbnail_lst, now_id, image_save_time_lst, json_save_time,
                 image_save_time, todo, last_step, env_events, frames>>

\* lines 532-547: a check box of the selected photo is clicked
ToggleGroup ==
  /\ pc = "ui"
  /\ mode = "EditPhotoData"
  /\ now_id # ""
  /\ ~central_panel_panics(mode, now_id)
  /\ \E i \in 1..Len(group_id_lst) :
       /\ group_id_lst' = photo_panel_groups(mode, now_id, {i}).group_id_lst
       /\ gui_group_data_lst' = photo_panel_groups(mode, now_id, {i}).gui_group_data_lst
  /\ pc' = "idle"
  /\ last_op' = "membership"
  /\ UNCHANGED <<codec, dummy_group_data, conv, now, disk, mode, photo_id_lst,
                 gui_photo_data_lst, thumbnail_lst, now_id, image_save_time_lst,
                 json_save_time, image_save_time, todo, last_step, env_events, frames>>

\* lines 400-413: the save button
SaveButton ==
  /\ pc = "ui"
  /\ LET saved == save_file(photo_id_lst, gui_photo_data_lst, group_id_lst,
                            gui_group_data_lst)
     IN /\ photo_store' = saved.photo_store
        /\ group_store' = saved.group_store
        /\ manifest' = saved.manifest
        /\ IF saved.ok /\ ~central_panel_panics(mode, now_id)
             THEN /\ pc' = "idle"
                  /\ last_op' = "saved"
             ELSE /\ pc' = "crashed"
                  /\ last_op' = "panic"
        /\ IF saved.ok
             THEN /\ time_store' = save_time_info_lst(image_save_time_lst)
                  /\ json_save_time' = now
             ELSE UNCHANGED <<time_store, json_save_time>>
        /\ IF saved.ok
             THEN /\ group_id_lst' = photo_panel_groups(mode, now_id, {}).group_id_lst
                  /\ gui_group_data_lst' =
                       photo_panel_groups(mode, now_id, {}).gui_group_data_lst
             ELSE UNCHANGED <<group_id_lst, gui_group_data_lst>>
  /\ UNCHANGED <<codec, dummy_group_data, conv, now, files, derived, mode, photo_id_lst,
                 gui_photo_data_lst, thumbnail_lst, now_id, image_save_time_lst,
                 image_save_time, todo, last_step, env_events, frames>>

(***************************************************************************)
(* gui.rs: PhotagApp::update, the group editor (side panel lines 415-457,  *)
(* central panel lines 551-664).                                           *)
(***************************************************************************)
\* the text the model lets the user type into the form of a new group
GroupEdits ==
  {<<"group_id", "g1">>, <<"group_id", "g2">>, <<"title", "Hills">>,
   <<"description", "walk">>, <<"title", "">>, <<"location", "Nagano">>}

\* lines 381-385 and 419-423: the switch button of the side panel
SwitchMode ==
  /\ pc = "ui"
  /\ mode' = IF mode = "EditPhotoData" THEN "EditGroupData" ELSE "EditPhotoData"
  /\ now_id' = ""
  /\ pc' = "idle"
  /\ last_op' = "frame"
  /\ UNCHANGED <<codec, dummy_group_data, conv, now, disk, photo_id_lst, gui_photo_data_lst,
                 group_id_lst, gui_group_data_lst, thumbnail_lst, image_save_time_lst,
                 json_save_time, image_save_time, todo, last_step, env_events, frames>>

\* lines 431-441: a click on a group id of the side panel
SelectGroup ==
  /\ pc = "ui"
  /\ mode = "EditGroupData"
  /\ \E i \in 1..Len(group_id_lst) :
       /\ now_id' = group_id_lst[i]
       /\ mode' = "EditGroupData"
       /\ pc' = IF central_panel_panics("EditGroupData", group_id_lst[i])
                  THEN "crashed" ELSE "idle"
       /\ last_op' = IF central_panel_panics("EditGroupData", group_id_lst[i])
                       THEN "panic" ELSE "frame"
  /\ UNCHANGED <<codec, dummy_group_data, conv, now, disk, photo_id_lst, gui_photo_data_lst,
                 group_id_lst, gui_group_data_lst, thumbnail_lst, image_save_time_lst,
                 json_save_time, image_save_time, todo, last_step, env_events, frames>>

\* lines 426-430: the "new" button of the side panel
NewGroupButton ==
  /\ pc = "ui"
  /\ mode = "EditGroupData"
  /\ now_id # ""
  /\ mode' = "EditGroupData"
  /\ now_id' = ""
  /\ pc' = "idle"
  /\ last_op' = "frame"
  /\ UNCHANGED <<codec, dummy_group_data, conv, now, disk, photo_id_lst, gui_photo_data_lst,
                 group_id_lst, gui_group_data_lst, thumbnail_lst, image_save_time_lst,
                 json_save_time, image_save_time, todo, last_step, env_events, frames>>

\* lines 569-601: a text field of the form of the new group is edited
EditGroupForm ==
  /\ pc = "ui"
  /\ mode = "EditGroupData"
  /\ now_id = ""
  /\ \E e \in GroupEdits :
       /\ dummy_group_data[e[1]] # e[2]
       /\ dummy_group_data' = [dummy_group_data EXCEPT ![e[1]] = e[2]]
  /\ pc' = "idle"
  /\ last_op' = "frame"
  /\ UNCHANGED <<codec, conv, now, disk, app, todo, last_step, env_events, frames>>

\* a make button that commits the id before it looks at the required fields
make_group_commits_id_first(id_lst, group_lst, form) ==
  IF form.group_id = "" \/ form.title = "" \/ form.description = ""
    THEN [group_id_lst |-> Append(id_lst, form.group_id), gui_group_data_lst |-> group_lst,
          dummy_group_data |-> form, made |-> FALSE]
    ELSE [group_id_lst |-> Append(id_lst, form.group_id),
          gui_group_data_lst |-> Insert(group_lst, form.group_id, form),
          dummy_group_data |-> make_dummy_gui_group_data, made |-> TRUE]

\* lines 555-567: what a click on the make button does to
\* (group_id_lst, gui_group_data_lst, dummy_group_data)
make_group(id_lst, group_lst, form) ==
  IF form.group_id = "" \/ form.title = "" \/ form.description = ""
    THEN [group_id_lst |-> id_lst, gui_group_data_lst |-> group_lst,
          dummy_group_data |-> form, made |-> FALSE]
    ELSE [group_id_lst |-> Append(id_lst, form.group_id),
          gui_group_data_lst |-> Insert(group_lst, form.group_id, form),
          dummy_group_data |-> make_dummy_gui_group_data, made |-> TRUE]

\* lines 552-568: a click on the make button
MakeGroup ==
  /\ pc = "ui"
  /\ mode = "EditGroupData"
  /\ now_id = ""
  /\ Len(group_id_lst) < MaxGroups
  /\ LET res == make_group(group_id_lst, gui_group_data_lst, dummy_group_data)
     IN /\ group_id_lst' = res.group_id_lst
        /\ gui_group_data_lst' = res.gui_group_data_lst
        /\ dummy_group_data' = res.dummy_group_data
        /\ last_op' = IF res.made THEN "group_made" ELSE "group_refused"
  /\ pc' = "idle"
  /\ UNCHANGED <<codec, conv, now, disk, mode, photo_id_lst, gui_photo_data_lst, thumbnail_lst,
                 now_id, image_save_time_lst, json_save_time, image_save_time, todo,
                 last_step, env_events, frames>>

\* lines 604-612: the delete button of the selected group
DeleteGroup ==
  /\ pc = "ui"
  /\ mode = "EditGroupData"
  /\ now_id # ""
  /\ group_id_lst' = SelectSeq(group_id_lst, LAMBDA id : id # now_id)
  /\ now_id' = ""
  /\ pc' = "idle"
  /\ last_op' = "frame"
  /\ UNCHANGED <<codec, dummy_group_data, conv, now, disk, mode, photo_id_lst,
                 gui_photo_data_lst, gui_group_data_lst, thumbnail_lst,
                 image_save_time_lst, json_save_time, image_save_time, todo, last_step,
                 env_events, frames>>

\* the edits of the text fields of a selected group the model lets the user make
SelectedGroupEdits == {<<"title", "">>, <<"description", "">>}

\* lines 613-662: a text field of the selected group is edited and the record
\* is written back under now_id
EditGroup ==
  /\ pc = "ui"
  /\ mode = "EditGroupData"
  /\ now_id # ""
  /\ ~central_panel_panics(mode, now_id)
  /\ \E e \in SelectedGroupEdits :
       /\ gui_group_data_lst[now_id][e[1]] # e[2]
       /\ gui_group_data_lst' =
            Insert(gui_group_data_lst, now_id,
                   [gui_group_data_lst[now_id] EXCEPT ![e[1]] = e[2]])
  /\ pc' = "idle"
  /\ last_op' = "frame"
  /\ UNCHANGED <<codec, dummy_group_data, conv, now, disk, mode, photo_id_lst,
                 gui_photo_data_lst, group_id_lst, thumbnail_lst, now_id,
                 image_save_time_lst, json_save_time, image_save_time, todo, last_step,
                 env_events, frames>>

GroupUser ==
  \/ SwitchMode
  \/ SelectGroup
  \/ NewGroupButton
  \/ EditGroupForm
  \/ MakeGroup
  \/ EditGroup
  \/ DeleteGroup

\* lines 222-247: on_close_event
Close ==
  /\ pc = "idle"
  /\ LET saved == save_file(photo_id_lst, gui_photo_data_lst, group_id_lst,
                            gui_group_data_lst)
     IN /\ photo_store' = saved.photo_store
        /\ group_store' = saved.group_store
        /\ manifest' = saved.manifest
        /\ IF saved.ok
             THEN /\ pc' = "closed"
                  /\ last_op' = "saved"
                  /\ time_store' = save_time_info_lst(image_save_time_lst)
             ELSE /\ pc' = "crashed"
                  /\ last_op' = "panic"
                  /\ UNCHANGED time_store
  /\ UNCHANGED <<codec, dummy_group_data, conv, now, files, derived, app, todo, last_step, env_events, frames>>

(***************************************************************************)
(* The environment, between two frames: the clock, the external editor of  *)
(* the manifest, and the original-image folder.                            *)
(***************************************************************************)
Advance ==
  /\ pc = "idle"
  /\ env_events < MaxEnvEvents
  /\ env_events' = env_events + 1
  /\ \E t \in Instants : t > now /\ now' = t
  /\ UNCHANGED <<codec, dummy_group_data, conv, pc, disk, app, todo, last_op, last_step, frames>>

EditManifest ==
  /\ pc = "idle"
  /\ env_events < MaxEnvEvents
  /\ env_events' = env_events + 1
  /\ \E m \in Manifests : m # manifest /\ manifest' = m
  /\ UNCHANGED <<codec, dummy_group_data, conv, pc, now, photo_store, group_store, time_store, files, derived, app,
                 todo, last_op, last_step, frames>>

\* the file is written anew: a new file with a new creation time
ReplaceFile ==
  /\ pc = "idle"
  /\ env_events < MaxEnvEvents
  /\ env_events' = env_events + 1
  /\ \E f \in ChangingFiles :
       /\ files[f].created # Some(now)
       /\ files' = [files EXCEPT ![f] = [@ EXCEPT !.readable = TRUE,
                                                   !.created = Some(now),
                                                   !.modified = Some(now)]]
  /\ UNCHANGED <<codec, dummy_group_data, conv, pc, now, manifest, photo_store, group_store, time_store, derived, app,
                 todo, last_op, last_step, frames>>

\* the modification time of the file is set to the current instant
TouchFile ==
  /\ pc = "idle"
  /\ env_events < MaxEnvEvents
  /\ env_events' = env_events + 1
  /\ \E f \in ChangingFiles :
       /\ files[f].readable
       /\ files[f].modified # Some(now)
       /\ files' = [files EXCEPT ![f] = [@ EXCEPT !.modified = Some(now)]]
  /\ UNCHANGED <<codec, dummy_group_data, conv, pc, now, manifest, photo_store, group_store, time_store, derived, app,
                 todo, last_op, last_step, frames>>

RemoveFile ==
  /\ pc = "idle"
  /\ env_events < MaxEnvEvents
  /\ env_events' = env_events + 1
  /\ \E f \in ChangingFiles :
       /\ files[f].readable
       /\ files' = [files EXCEPT ![f] = MissingFile]
  /\ UNCHANGED <<codec, dummy_group_data, conv, pc, now, manifest, photo_store, group_store, time_store, derived, app,
                 todo, last_op, last_step, frames>>

(***************************************************************************)
(* The program's own steps, and the user's input events.                   *)
(***************************************************************************)
Program ==
  \/ New
  \/ MetadataRefresh
  \/ MetadataSkip
  \/ DerivativeBegin
  \/ DerivativeSkip
  \/ DerivativeStep
  \/ DerivativeEnd
  \/ UiNoInput

User ==
  \/ SelectPhoto
  \/ EditPhoto
  \/ SaveButton
  \/ Close

(***************************************************************************)
(* Spec: a session in which the user edits and saves and the manifest is   *)
(* edited externally, over source files that do not change.                *)
(***************************************************************************)
Init == InitWith("init", Manifests, InitWorkDirs, SourceFiles({Some(PastTime)}), {NoConv},
           {NoCodec})

Next ==
  \/ Program
  \/ User
  \/ Advance
  \/ EditManifest

Spec == Init /\ [][Next]_vars

(***************************************************************************)
(* SpecDerive: a session without user input in which the source files are  *)
(* replaced, touched or removed while the clock advances.                  *)
(***************************************************************************)
InitDerive ==
  InitWith("init", Manifests, InitWorkDirs, SourceFiles({None, Some(PastTime), Some(0)}),
           {NoConv}, {NoCodec})

NextDerive ==
  \/ Program
  \/ Advance
  \/ EditManifest
  \/ ReplaceFile
  \/ TouchFile
  \/ RemoveFile

SpecDerive == InitDerive /\ [][NextDerive]_vars

(***************************************************************************)
(* SpecGroups: a session in which the user works in the group editor; the  *)
(* manifest and the source files do not change.                            *)
(***************************************************************************)
InitGroups ==
  InitWith("init", {m \in Manifests : Len(m) = 2}, InitWorkDirs, SourceFiles({Some(PastTime)}), {NoConv},
           {NoCodec})

NextGroups ==
  \/ Program
  \/ GroupUser
  \/ Advance

SpecGroups == InitGroups /\ [][NextGroups]_vars

(***************************************************************************)
(* SpecMembership: a session in which the user selects photos and clicks   *)
(* the check boxes of their groups, over a work directory in which an      *)
(* earlier session left three groups.                                      *)
(***************************************************************************)
StoredGroup(id, members) ==
  [group_id |-> id, photo_id_list |-> members,
   year |-> None, month |-> None, day |-> None, hour |-> None, minutes |-> None,
   title |-> "Trip", description |-> "summer", location |-> None]

MemberWorkDirs ==
  {[photo_store |-> Stored(<<StoredP2, StoredP1>>),
    group_store |-> Stored(<<StoredGroup("g1", <<"p1">>), StoredGroup("g2", <<"p2", "p1">>),
                             StoredGroup("g3", <<>>)>>),
    time_store |-> Stored([k \in {"p1"} |-> PastTime])]}

InitMembership ==
  InitWith("init", {m \in Manifests : Len(m) = 2}, MemberWorkDirs,
           SourceFiles({Some(PastTime)}), {NoConv}, {NoCodec})

NextMembership ==
  \/ Program
  \/ SelectPhoto
  \/ ToggleGroup
  \/ Advance

SpecMembership == InitMembership /\ [][NextMembership]_vars

(***************************************************************************)
(* SpecConv: the two conversions of photodata.rs applied, one after the    *)
(* other, to one sampled record.  No session runs.                         *)
(***************************************************************************)
\* the value a present optional field has in the k-th family of samples
SampleValue(k, f) ==
  IF k = 1
    THEN (CASE f = "title" -> "Sunset" [] f = "year" -> "2024" [] f = "month" -> "05"
            [] f = "day" -> "17" [] f = "hour" -> "18" [] f = "minutes" -> "42"
            [] f = "body" -> "X-T3" [] f = "lens" -> "XF 35mm" [] f = "time" -> "1/250"
            [] f = "focal_length" -> "35" [] f = "f_value" -> "2.8" [] f = "iso" -> "400")
    ELSE f

\* a PhotoData whose optional fields are absent in `nones`, present and empty in
\* `empties`, and present with a value elsewhere
PhotoSample(k, nones, empties) ==
  [file_name |-> "IMG1.JPG",
   photo_id |-> "p1",
   photo_src |-> photo_src_of("p1"),
   photo_lazy_src |-> photo_lazy_src_of("p1"),
   alt |-> "lake",
   title |-> IF "title" \in nones THEN None ELSE IF "title" \in empties THEN Some("") ELSE Some(SampleValue(k, "title")),
   year |-> IF "year" \in nones THEN None ELSE IF "year" \in empties THEN Some("") ELSE Some(SampleValue(k, "year")),
   month |-> IF "month" \in nones THEN None ELSE IF "month" \in empties THEN Some("") ELSE Some(SampleValue(k, "month")),
   day |-> IF "day" \in nones THEN None ELSE IF "day" \in empties THEN Some("") ELSE Some(SampleValue(k, "day")),
   hour |-> IF "hour" \in nones THEN None ELSE IF "hour" \in empties THEN Some("") ELSE Some(SampleValue(k, "hour")),
   minutes |-> IF "minutes" \in nones THEN None ELSE IF "minutes" \in empties THEN Some("") ELSE Some(SampleValue(k, "minutes")),
   location |-> "X",
   body |-> IF "body" \in nones THEN None ELSE IF "body" \in empties THEN Some("") ELSE Some(SampleValue(k, "body")),
   lens |-> IF "lens" \in nones THEN None ELSE IF "lens" \in empties THEN Some("") ELSE Some(SampleValue(k, "lens")),
   time |-> IF "time" \in nones THEN None ELSE IF "time" \in empties THEN Some("") ELSE Some(SampleValue(k, "time")),
   focal_length |-> IF "focal_length" \in nones THEN None ELSE IF "focal_length" \in empties THEN Some("") ELSE Some(SampleValue(k, "focal_length")),
   f_value |-> IF "f_value" \in nones THEN None ELSE IF "f_value" \in empties THEN Some("") ELSE Some(SampleValue(k, "f_value")),
   iso |-> IF "iso" \in nones THEN None ELSE IF "iso" \in empties THEN Some("") ELSE Some(SampleValue(k, "iso"))]

\* the sets of at most MaxUnset optional fields
FewFields == {S \in SUBSET OptFields : Cardinality(S) <= MaxUnset}

PhotoSamples ==
  UNION {{PhotoSample(k, nones, empties) :
            k \in 1..2,
            empties \in {E \in FewFields : Cardinality(nones \cup E) <= MaxUnset}} :
         nones \in FewFields}

\* a GUIPhotoData: every field a string, the fields of `empties` empty
GuiSamples ==
  {photo_data_to_gui_photo_data(PhotoSample(k, empties, {})) :
     k \in 1..2, empties \in FewFields}

PhotoConvInputs ==
  {[dir |-> "photo", input |-> p, stage |-> 0, mid |-> p, out |-> p] : p \in PhotoSamples}
GuiConvInputs ==
  {[dir |-> "gui", input |-> g, stage |-> 0, mid |-> g, out |-> g] : g \in GuiSamples}

InitConv ==
  \/ InitWith("conv", {<<>>},
              {[photo_store |-> Absent, group_store |-> Absent, time_store |-> Absent]},
              {[f \in FileNames |-> MissingFile]}, PhotoConvInputs, {NoCodec})
  \/ InitWith("conv", {<<>>},
              {[photo_store |-> Absent, group_store |-> Absent, time_store |-> Absent]},
              {[f \in FileNames |-> MissingFile]}, GuiConvInputs, {NoCodec})

\* the first conversion: PhotoData to GUIPhotoData, or GUIPhotoData to PhotoData
ConvertForth ==
  /\ pc = "conv"
  /\ conv.stage = 0
  /\ conv' = [conv EXCEPT !.stage = 1,
                          !.mid = IF conv.dir = "photo"
                                    THEN photo_data_to_gui_photo_data(conv.input)
                                    ELSE gui_photo_data_to_photo_data(conv.input)]
  /\ UNCHANGED <<codec, dummy_group_data, pc, now, disk, app, todo, last_op, last_step, env_events, frames>>

\* the conversion back
ConvertBack ==
  /\ pc = "conv"
  /\ conv.stage = 1
  /\ conv' = [conv EXCEPT !.stage = 2,
                          !.out = IF conv.dir = "photo"
                                    THEN gui_photo_data_to_photo_data(conv.mid)
                                    ELSE photo_data_to_gui_photo_data(conv.mid)]
  /\ UNCHANGED <<codec, dummy_group_data, pc, now, disk, app, todo, last_op, last_step, env_events, frames>>

NextConv ==
  \/ ConvertForth
  \/ ConvertBack

SpecConv == InitConv /\ [][NextConv]_vars

(***************************************************************************)
(* SpecCodec: one call of image::compression (image.rs:11-90), followed    *)
(* call by call on the encoder.  `calls` is the sequence of calls the      *)
(* encoder has received.                                                   *)
(***************************************************************************)
\* the (marker type, payload) pairs a picture can carry
MarkerPairs ==
  {[marker |-> "APP1", data |-> "Exif"], [marker |-> "APP2", data |-> "ICC"],
   [marker |-> "COM", data |-> "note"]}

\* the markers of the pictures compression is called on
MarkerLists == UNION {[1..n -> MarkerPairs] : n \in 0..MaxMarkers}

\* the calls on the encoder
StartCompressCall ==
  [call |-> "start_compress", marker |-> "", data |-> "", from |-> 0, to |-> 0]
WriteMarkerCall(m) ==
  [call |-> "write_marker", marker |-> m.marker, data |-> m.data, from |-> 0, to |-> 0]
WriteScanlinesCall(from, to) ==
  [call |-> "write_scanlines", marker |-> "", data |-> "", from |-> from, to |-> to]
FinishCompressCall ==
  [call |-> "finish_compress", marker |-> "", data |-> "", from |-> 0, to |-> 0]

InitCodec ==
  InitWith("codec", {<<>>},
           {[photo_store |-> Absent, group_store |-> Absent, time_store |-> Absent]},
           {[f \in FileNames |-> MissingFile]}, {NoConv},
           {[NoCodec EXCEPT !.stage = "called", !.input = ms] : ms \in MarkerLists})

\* lines 12-55: the markers are captured, the picture is decoded and resized;
\* the sides of the resized picture are whatever `img.resize` made them
Decode ==
  /\ pc = "codec"
  /\ codec.stage = "called"
  /\ \E w \in 1..MaxSide, h \in 1..MaxSide :
       codec' = [codec EXCEPT !.stage = "resized", !.markers = codec.input,
                              !.width = w, !.height = h]
  /\ UNCHANGED <<pc, now, disk, app, dummy_group_data, todo, last_op, last_step,
                 env_events, frames, conv>>

\* lines 61-66
StartCompress ==
  /\ pc = "codec"
  /\ codec.stage = "resized"
  /\ codec' = [codec EXCEPT !.stage = "markers", !.rest = codec.markers,
                            !.calls = Append(codec.calls, StartCompressCall)]
  /\ UNCHANGED <<pc, now, disk, app, dummy_group_data, todo, last_op, last_step,
                 env_events, frames, conv>>

\* lines 69-71: one turn of `markers.into_iter().for_each`
WriteMarker ==
  /\ pc = "codec"
  /\ codec.stage = "markers"
  /\ codec.rest # <<>>
  /\ codec' = [codec EXCEPT !.rest = Tail(codec.rest),
                            !.calls = Append(codec.calls, WriteMarkerCall(Head(codec.rest)))]
  /\ UNCHANGED <<pc, now, disk, app, dummy_group_data, todo, last_op, last_step,
                 env_events, frames, conv>>

\* line 74: `let mut line = 0`, after the last marker
BeginScanlines ==
  /\ pc = "codec"
  /\ codec.stage = "markers"
  /\ codec.rest = <<>>
  /\ codec' = [codec EXCEPT !.stage = "lines", !.line = 0]
  /\ UNCHANGED <<pc, now, disk, app, dummy_group_data, todo, last_op, last_step,
                 env_events, frames, conv>>

\* a loop that stops one row short
loop_ends_one_row_early(line, height) == line + 1 > height - 1

\* line 76: `if line > height - 1 { break; }`
loop_ends(line, height) == line > height - 1

\* line 79: the bytes of row `line` in the RGB buffer
scanline_range(line, width) == <<line * width * 3, (line + 1) * width * 3>>

\* lines 75-82: one turn of the loop
WriteScanline ==
  /\ pc = "codec"
  /\ codec.stage = "lines"
  /\ ~loop_ends(codec.line, codec.height)
  /\ LET buf == scanline_range(codec.line, codec.width)
     IN codec' = [codec EXCEPT !.line = codec.line + 1,
                               !.calls = Append(codec.calls,
                                                WriteScanlinesCall(buf[1], buf[2]))]
  /\ UNCHANGED <<pc, now, disk, app, dummy_group_data, todo, last_op, last_step,
                 env_events, frames, conv>>

\* lines 76-77 and 85: the loop is left and the compression is finished
FinishCompress ==
  /\ pc = "codec"
  /\ codec.stage = "lines"
  /\ loop_ends(codec.line, codec.height)
  /\ codec' = [codec EXCEPT !.stage = "finished",
                            !.calls = Append(codec.calls, FinishCompressCall)]
  /\ UNCHANGED <<pc, now, disk, app, dummy_group_data, todo, last_op, last_step,
                 env_events, frames, conv>>

NextCodec ==
  \/ Decode
  \/ StartCompress
  \/ WriteMarker
  \/ BeginScanlines
  \/ WriteScanline
  \/ FinishCompress

SpecCodec == InitCodec /\ [][NextCodec]_vars

(***************************************************************************)
(* Steps of the program, recognised from a pair of states.                 *)
(***************************************************************************)
\* PhotagApp::new returned
StartupStep == pc = "init" /\ pc' = "idle"
\* a frame ran the metadata-refresh branch (its merge and its save_file)
ReconcileStep == pc = "idle" /\ frames' = frames + 1 /\ json_trigger
\* one iteration of the derivative loop ran on `id`
PassStep(id) == pc = "loop" /\ id \in todo /\ id \notin todo'

ManifestIds(m) == {m[i].id : i \in 1..Len(m)}
\* the i-th import record is the last one of the manifest with its id
LastOfId(m, i) == \A j \in (i + 1)..Len(m) : m[j].id # m[i].id
\* the i-th import record is the first one of the manifest with its id
FirstOfId(m, i) == \A j \in 1..(i - 1) : m[j].id # m[i].id

(***************************************************************************)
(* C1.  Manifest precedence.  For every import record whose id already has *)
(* a photo record, the startup merge and the periodic merge yield a record *)
(* whose file_name, alt and location are the import record's and whose     *)
(* title, year, month, day, hour, minutes, body, lens, time, focal_length, *)
(* f_value and iso are the existing record's.                              *)
(***************************************************************************)
C1_Startup ==
  StartupStep =>
    LET original == load_photo_data_opt(photo_store)
    IN \A i \in 1..Len(manifest) :
         LET imp == manifest[i]
         IN (HasKey(original, imp.id) /\ LastOfId(manifest, i)) =>
              /\ HasKey(gui_photo_data_lst', imp.id)
              /\ gui_photo_data_lst'[imp.id].file_name = imp.file_name
              /\ gui_photo_data_lst'[imp.id].alt = imp.alt
              /\ gui_photo_data_lst'[imp.id].location = imp.location
              /\ \A f \in OptFields :
                    gui_photo_data_lst'[imp.id][f] = unwrap_or_default(original[imp.id][f])

C1_Periodic ==
  ReconcileStep =>
    \A i \in 1..Len(manifest) :
      LET imp == manifest[i]
      IN (HasKey(gui_photo_data_lst, imp.id) /\ LastOfId(manifest, i)) =>
           /\ HasKey(gui_photo_data_lst', imp.id)
           /\ gui_photo_data_lst'[imp.id].file_name = imp.file_name
           /\ gui_photo_data_lst'[imp.id].alt = imp.alt
           /\ gui_photo_data_lst'[imp.id].location = imp.location
           /\ \A f \in OptFields :
                 gui_photo_data_lst'[imp.id][f] = gui_photo_data_lst[imp.id][f]

C1_ManifestPrecedence == [][C1_Startup /\ C1_Periodic]_vars

\* a periodic merge has applied the manifest's new alt to the record of p1 and
\* has kept its title
C1_Witness ==
  /\ last_op = "reconciled"
  /\ HasKey(gui_photo_data_lst, "p1")
  /\ gui_photo_data_lst["p1"].title = "Sunset"
  /\ gui_photo_data_lst["p1"].alt = "pond"
  /\ photo_store.state = "ok"
  /\ \E i \in 1..Len(photo_store.data) :
       /\ photo_store.data[i].title = Some("Sunset")
       /\ photo_store.data[i].alt = "pond"

(***************************************************************************)
(* C2.  Group pruning.  After a reconciliation every group's photo_id_list *)
(* is its previous list filtered, in the same order, to exactly the ids of *)
(* the import manifest that was reconciled: after startup the groups held  *)
(* in memory, after a periodic reconciliation the groups it saves.         *)
(***************************************************************************)
InManifest(list, m) == SelectSeq(list, LAMBDA id : id \in ManifestIds(m))

C2_Startup ==
  StartupStep =>
    LET group_data_lst == load_group_data_from_work_directory(group_store)
    IN \A i \in 1..Len(group_data_lst) :
         LET g == group_data_lst[i]
         IN /\ HasKey(gui_group_data_lst', g.group_id)
            /\ gui_group_data_lst'[g.group_id].photo_id_list
                 = InManifest(g.photo_id_list, manifest)

C2_Periodic ==
  (ReconcileStep /\ pc' = "image") =>
    /\ group_store'.state = "ok"
    /\ \A i \in 1..Len(group_store'.data) :
         LET g == group_store'.data[i]
         IN g.photo_id_list
              = InManifest(gui_group_data_lst[g.group_id].photo_id_list, manifest)

C2_GroupPruning == [][C2_Startup /\ C2_Periodic]_vars

(***************************************************************************)
(* C3.  Idempotence.  Reconciling the same manifest twice in a row, the    *)
(* first result fed back as the existing catalog and the files unchanged,  *)
(* gives the first result again: for the startup merge (fed back through   *)
(* load_photo_data_opt) and for the periodic merge.                        *)
(***************************************************************************)
C3_StartupTwice ==
  LET once == merge_photo_data_based_and_import_photo_data(
                load_photo_data_opt(photo_store), manifest, files)
      twice == merge_photo_data_based_and_import_photo_data(
                 load_photo_data_opt(Stored(once.data)), manifest, files)
  IN twice = once

C3_PeriodicTwice ==
  LET once == merge_gui_photo_data_based_and_import_photo_data(
                gui_photo_data_lst, gui_group_data_lst, manifest, files)
      twice == merge_gui_photo_data_based_and_import_photo_data(
                 once.photos, once.groups, manifest, files)
  IN twice = once

C3_Idempotent ==
  /\ pc = "init" => C3_StartupTwice
  /\ pc = "idle" => C3_PeriodicTwice

(***************************************************************************)
(* C4.  The staleness decision.  In a derivative pass, at startup and on   *)
(* the derivative-refresh trigger, a photo is judged stale exactly when    *)
(* the staleness store has no entry for its photo id, or the stored        *)
(* timestamp is strictly earlier than the source file's timestamp, or that *)
(* timestamp cannot be read.  A stale photo has both derivatives written   *)
(* and its entry set to the current instant (unless the step aborts the    *)
(* program); for a photo that is not stale nothing is written and the      *)
(* staleness store is unchanged.  The photo id is the import record's id   *)
(* at startup and the record's photo_id in the periodic pass.              *)
(***************************************************************************)
ExpectedStale(times, photo_id, file_name) ==
  LET time_stamp == get_file_timestamp(file_at(files, file_name))
  IN \/ photo_id \notin DOMAIN times
     \/ time_stamp = None
     \/ (photo_id \in DOMAIN times /\ time_stamp # None /\ times[photo_id] < time_stamp[1])

C4_Startup ==
  StartupStep =>
    LET times == get_time_info_lst(time_store)
    IN \A i \in 1..Len(manifest) :
         LET imp == manifest[i]
         IN IF ExpectedStale(times, imp.id, imp.file_name)
              THEN /\ HasKey(derived', imp.id)
                   /\ HasKey(image_save_time_lst', imp.id)
                   /\ image_save_time_lst'[imp.id] = now
              ELSE /\ ~HasKey(derived', imp.id)
                   /\ image_save_time_lst'[imp.id] = times[imp.id]

C4_Pass ==
  \A id \in todo :
    PassStep(id) =>
      LET gui_photo_data == gui_photo_data_lst[id]
      IN IF ExpectedStale(image_save_time_lst, gui_photo_data.photo_id,
                          gui_photo_data.file_name)
           THEN /\ last_step'.stale
                /\ pc' # "crashed" =>
                     /\ last_op' = "regenerated"
                     /\ HasKey(derived', id)
                     /\ HasKey(image_save_time_lst', id)
                     /\ image_save_time_lst'[id] = now
           ELSE /\ ~last_step'.stale
                /\ last_op' = "fresh"
                /\ derived' = derived
                /\ thumbnail_lst' = thumbnail_lst
                /\ image_save_time_lst' = image_save_time_lst

C5_Pass ==
  \A id \in todo :
    PassStep(id) =>
      LET time_stamp ==
            get_file_timestamp(file_at(files, gui_photo_data_lst[id].file_name))
      IN (/\ HasKey(image_save_time_lst, id)
          /\ time_stamp # None
          /\ time_stamp[1] <= image_save_time_lst[id]) =>
           /\ ~last_step'.stale
           /\ derived' = derived
           /\ image_save_time_lst' = image_save_time_lst

C5_FreshStaysFresh == [][C5_Pass]_vars

(***************************************************************************)
(* C6.  Touching the source.  After a photo has been marked fresh, setting *)
(* the modification time of its source file to an instant later than the   *)
(* stored timestamp makes the photo stale: the next derivative pass        *)
(* regenerates its derivatives and marks it again.                         *)
(***************************************************************************)
C6_Pass ==
  \A id \in todo :
    PassStep(id) =>
      LET gui_photo_data == gui_photo_data_lst[id]
          file == file_at(files, gui_photo_data.file_name)
      IN (/\ gui_photo_data.photo_id = id
          /\ HasKey(image_save_time_lst, id)
          /\ file.readable
          /\ file.modified # None
          /\ file.modified[1] > image_save_time_lst[id]) =>
           /\ last_step'.stale
           /\ pc' # "crashed" =>
                /\ last_op' = "regenerated"
                /\ image_save_time_lst'[id] = now

C6_TouchMakesStale == [][C6_Pass]_vars

(***************************************************************************)
(* C7.  Conversion round trip.  PhotoData -> GUIPhotoData -> PhotoData     *)
(* returns the original record whenever every optional field is present    *)
(* and non-empty.  An absent optional field becomes the empty string, an   *)
(* empty string becomes an absent field, and GUIPhotoData -> PhotoData ->  *)
(* GUIPhotoData is the identity on every GUI record.                       *)
(***************************************************************************)
AllPresent(p) == \A f \in OptFields : p[f] # None /\ p[f] # Some("")

C7_RoundTrip ==
  /\ (conv.dir = "photo" /\ conv.stage >= 1) =>
       \A f \in OptFields : conv.input[f] = None => conv.mid[f] = ""
  /\ (conv.dir = "photo" /\ conv.stage = 2 /\ AllPresent(conv.input)) =>
       conv.out = conv.input
  /\ (conv.dir = "gui" /\ conv.stage >= 1) =>
       \A f \in OptFields : conv.input[f] = "" => conv.mid[f] = None
  /\ (conv.dir = "gui" /\ conv.stage = 2) => conv.out = conv.input

\* a GUI record with an empty title and a non-empty year has gone to PhotoData
\* and back
C7_Witness ==
  /\ conv.dir = "gui"
  /\ conv.stage = 2
  /\ conv.input.title = ""
  /\ conv.input.year = "2024"
  /\ conv.mid.title = None
  /\ conv.mid.year = Some("2024")
  /\ conv.out.title = ""

(***************************************************************************)
(* C8.  EXIF failure is lenient.  For an import record whose id has no     *)
(* photo record and whose EXIF extraction fails, the reconciliation still  *)
(* makes a record: photo_id empty, every optional field empty, file_name,  *)
(* alt and location from the import record; and the other import records   *)
(* of the manifest are processed as well.                                  *)
(***************************************************************************)
ExifFails(file_name) ==
  LET file == file_at(files, file_name)
  IN ~file.readable \/ file.exif = None

FailureRecord(r, imp) ==
  /\ r.photo_id = ""
  /\ r.file_name = imp.file_name
  /\ r.alt = imp.alt
  /\ r.location = imp.location
  /\ \A f \in OptFields : r[f] = ""

C8_Startup ==
  StartupStep =>
    LET original == load_photo_data_opt(photo_store)
        fails(i) == /\ ~HasKey(original, manifest[i].id)
                    /\ ExifFails(manifest[i].file_name)
    IN /\ Len(photo_id_lst') = Len(manifest)
       /\ \A i \in 1..Len(manifest) :
            IF fails(i)
              THEN /\ HasKey(gui_photo_data_lst', "")
                   /\ (\A j \in (i + 1)..Len(manifest) : ~fails(j)) =>
                        FailureRecord(gui_photo_data_lst'[""], manifest[i])
              ELSE /\ HasKey(gui_photo_data_lst', manifest[i].id)
                   /\ gui_photo_data_lst'[manifest[i].id].photo_id = manifest[i].id

C8_Periodic ==
  ReconcileStep =>
    \A i \in 1..Len(manifest) :
      LET imp == manifest[i]
      IN /\ HasKey(gui_photo_data_lst', imp.id)
         /\ (/\ ~HasKey(gui_photo_data_lst, imp.id)
             /\ FirstOfId(manifest, i)
             /\ LastOfId(manifest, i)
             /\ ExifFails(imp.file_name)) =>
              FailureRecord(gui_photo_data_lst'[imp.id], imp)

C8_ExifFailureIsLenient == [][C8_Startup /\ C8_Periodic]_vars

\* a periodic merge has made the record of p1 on the failure path and the
\* record of p2, of the same manifest, as well
C8_Witness ==
  /\ last_op = "reconciled"
  /\ HasKey(gui_photo_data_lst, "p1")
  /\ gui_photo_data_lst["p1"].photo_id = ""
  /\ gui_photo_data_lst["p1"].alt = "lake"
  /\ gui_photo_data_lst["p1"].f_value = ""
  /\ HasKey(gui_photo_data_lst, "p2")
  /\ gui_photo_data_lst["p2"].photo_id = "p2"

(***************************************************************************)
(* C9.  A photo id is immutable.  Every save (by the metadata refresh, the *)
(* save button or the close event) writes, for each entry, the id that the *)
(* import manifest assigned to it at startup, to the import manifest and   *)
(* to the photo store: never another value, never the empty string.        *)
(***************************************************************************)
SaveStep ==
  \/ ReconcileStep /\ pc' = "image"
  \/ pc = "ui" /\ pc' = "idle" /\ last_op' = "saved"
  \/ pc = "idle" /\ pc' = "closed"

C9_Save ==
  SaveStep =>
    /\ \A i \in 1..Len(manifest') :
         i <= Len(photo_id_lst) /\ manifest'[i].id = photo_id_lst[i]
    /\ photo_store'.state = "ok"
    /\ \A i \in 1..Len(photo_store'.data) :
         i <= Len(photo_id_lst) /\ photo_store'.data[i].photo_id = photo_id_lst[i]

C9_IdImmutable == [][C9_Save]_vars

(***************************************************************************)
(* C10.  Manifest order.  The startup reconciliation returns one photo     *)
(* record per import record, in manifest order: the id list is the         *)
(* manifest's id sequence, whatever the order of the prior catalog, and    *)
(* the i-th record is the one built for the i-th import record.            *)
(***************************************************************************)
C10_Startup ==
  StartupStep =>
    LET merged == merge_photo_data_based_and_import_photo_data(
                    load_photo_data_opt(photo_store), manifest, files)
    IN /\ photo_id_lst' = [i \in 1..Len(manifest) |-> manifest[i].id]
       /\ merged.ids = photo_id_lst'
       /\ Len(merged.data) = Len(manifest)
       /\ \A i \in 1..Len(manifest) :
            /\ merged.data[i].file_name = manifest[i].file_name
            /\ merged.data[i].alt = manifest[i].alt
            /\ merged.data[i].location = manifest[i].location
            /\ merged.data[i].photo_src = photo_src_of(manifest[i].id)
            /\ merged.data[i].photo_id \in {manifest[i].id, ""}
            /\ HasKey(gui_photo_data_lst', merged.data[i].photo_id)
            /\ merged.data[i].photo_id # "" =>
                 gui_photo_data_lst'[manifest[i].id]
                   = photo_data_to_gui_photo_data(merged.data[i])

C10_ManifestOrder == [][C10_Startup]_vars

\* startup has reconciled the manifest p1, p2 against a prior catalog that
\* holds p2 before p1
C10_Witness ==
  /\ last_op = "startup"
  /\ photo_store = Stored(<<StoredP2, StoredP1>>)
  /\ photo_id_lst = <<"p1", "p2">>
  /\ HasKey(gui_photo_data_lst, "p1")
  /\ HasKey(gui_photo_data_lst, "p2")
  /\ gui_photo_data_lst["p1"].title = "Sunset"

(***************************************************************************)
(* C11.  Derived-output locators.  Every record a reconciliation makes, on *)
(* the existing-record path, the EXIF-success path and the EXIF-failure    *)
(* path, has photo_src = images/normal/{id}.JPG and photo_lazy_src =       *)
(* images/lazy/{id}.JPG for the import record's id: the paths, relative to *)
(* the work directory, at which the two derivative files are written.      *)
(***************************************************************************)
C11_Startup ==
  StartupStep =>
    LET merged == merge_photo_data_based_and_import_photo_data(
                    load_photo_data_opt(photo_store), manifest, files)
    IN \A i \in 1..Len(manifest) :
         /\ merged.data[i].photo_src = normal_path_of(manifest[i].id)
         /\ merged.data[i].photo_lazy_src = lazy_path_of(manifest[i].id)

C11_Periodic ==
  ReconcileStep =>
    \A i \in 1..Len(manifest) :
      /\ HasKey(gui_photo_data_lst', manifest[i].id)
      /\ gui_photo_data_lst'[manifest[i].id].photo_src = normal_path_of(manifest[i].id)
      /\ gui_photo_data_lst'[manifest[i].id].photo_lazy_src = lazy_path_of(manifest[i].id)

C11_Locators == [][C11_Startup /\ C11_Periodic]_vars

(***************************************************************************)
(* C12.  Per-id failures are isolated.  When an iteration of a derivative  *)
(* pass has to read a source file that cannot be read, the pass does not   *)
(* fail: it goes on with the ids still to visit, what it has regenerated   *)
(* so far stays, and it ends by persisting the staleness store.            *)
(***************************************************************************)
\* the iteration on `id` reads the source file, and the file cannot be read
SourceFailure(id) ==
  /\ ~HasKey(image_save_time_lst, gui_photo_data_lst[id].photo_id)
  /\ ~file_at(files, gui_photo_data_lst[id].file_name).readable

C12_Pass ==
  \A id \in todo :
    (PassStep(id) /\ SourceFailure(id)) =>
      /\ pc' = "loop"
      /\ todo' = todo \ {id}
      /\ \A k \in DOMAIN derived : HasKey(derived', k)

C12_PassEnds ==
  (pc = "loop" /\ pc' = "ui") => time_store' = Stored(image_save_time_lst)

C12_FailureIsolated == [][C12_Pass /\ C12_PassEnds]_vars

(***************************************************************************)
(* C20.  No fresh mark on failure, and a retry.  When the regeneration of  *)
(* a photo fails during a derivative pass, its staleness entry is neither  *)
(* created nor updated, and the session goes on, so that the next          *)
(* derivative pass of the session judges the photo stale and tries again.  *)
(***************************************************************************)
C20_Pass ==
  \A id \in todo :
    (PassStep(id) /\ SourceFailure(id)) =>
      /\ image_save_time_lst' = image_save_time_lst
      /\ ~HasKey(image_save_time_lst', gui_photo_data_lst[id].photo_id)
      /\ pc' # "crashed"

C20_RetryAfterFailure == [][C20_Pass]_vars

(***************************************************************************)
(* C13.  Loading never fails.  The staleness store, the photo store and    *)
(* the group store each load as an empty structure when the file is        *)
(* absent, the staleness store also when its file exists and cannot be     *)
(* parsed; no load aborts the program.  With every source file readable,   *)
(* startup therefore completes, and after a staleness store that loaded    *)
(* empty every entry of the time map is a mark made by this startup.       *)
(***************************************************************************)
AllSourcesReadable ==
  \A i \in 1..Len(manifest) : file_at(files, manifest[i].file_name).readable

C13_Startup ==
  (pc = "init" /\ pc' # "init" /\ AllSourcesReadable) =>
    /\ pc' = "idle"
    /\ photo_store.state = "absent" =>
         \A k \in DOMAIN gui_photo_data_lst' : gui_photo_data_lst'[k].title = ""
    /\ group_store.state = "absent" =>
         (group_id_lst' = <<>> /\ gui_group_data_lst' = EmptyMap)
    /\ time_store.state # "ok" =>
         \A k \in DOMAIN image_save_time_lst' : image_save_time_lst'[k] = now

C13_LoadNeverFails == [][C13_Startup]_vars

(***************************************************************************)
(* C14.  A click on the make button while the group_id, the title or the   *)
(* description of the form is empty is refused and commits nothing: the    *)
(* group id list, the group map and the form are unchanged.  With all      *)
(* three non-empty the group id is appended to the group id list, the form *)
(* is inserted in the group map under its id, and the form is reset.       *)
(***************************************************************************)
MakeStep ==
  /\ pc = "ui" /\ pc' = "idle"
  /\ mode = "EditGroupData" /\ now_id = ""
  /\ last_op' \in {"group_made", "group_refused"}

C14_Make ==
  MakeStep =>
    IF \/ dummy_group_data.group_id = ""
       \/ dummy_group_data.title = ""
       \/ dummy_group_data.description = ""
      THEN /\ group_id_lst' = group_id_lst
           /\ gui_group_data_lst' = gui_group_data_lst
           /\ dummy_group_data' = dummy_group_data
      ELSE /\ group_id_lst' = Append(group_id_lst, dummy_group_data.group_id)
           /\ HasKey(gui_group_data_lst', dummy_group_data.group_id)
           /\ gui_group_data_lst'[dummy_group_data.group_id] = dummy_group_data
           /\ \A k \in DOMAIN gui_group_data_lst :
                k # dummy_group_data.group_id =>
                  /\ HasKey(gui_group_data_lst', k)
                  /\ gui_group_data_lst'[k] = gui_group_data_lst[k]
           /\ dummy_group_data' = make_dummy_gui_group_data

C14_CreateGroup == [][C14_Make]_vars

\* a group was created from a complete form, after a refused click left the
\* list as it was
C14_Witness ==
  /\ last_op = "group_made"
  /\ Len(group_id_lst) > 0
  /\ group_id_lst[Len(group_id_lst)] = "g2"
  /\ HasKey(gui_group_data_lst, "g2")
  /\ gui_group_data_lst["g2"].title = "Hills"
  /\ dummy_group_data = make_dummy_gui_group_data

(***************************************************************************)
(* C16.  The markers captured at decode are the (marker type, payload)     *)
(* pairs of the input, and the encoder receives: start_compress; then one  *)
(* write_marker per captured pair, unchanged, in the captured order, each  *)
(* once, before any scanline; then exactly `height` scanlines of           *)
(* `width * 3` bytes, row 0 first; then finish_compress.  While the call   *)
(* runs the encoder has received a prefix of that sequence, and the row    *)
(* counter never passes `height`.                                          *)
(***************************************************************************)
ExpectedCalls(ms, w, h) ==
  <<StartCompressCall>>
    \o [i \in 1..Len(ms) |-> WriteMarkerCall(ms[i])]
    \o [i \in 1..h |-> WriteScanlinesCall((i - 1) * w * 3, i * w * 3)]
    \o <<FinishCompressCall>>

IsPrefix(a, b) == Len(a) <= Len(b) /\ \A i \in 1..Len(a) : a[i] = b[i]

C16_MarkersThenScanlines ==
  codec.stage \in {"markers", "lines", "finished"} =>
    /\ codec.markers = codec.input
    /\ codec.line <= codec.height
    /\ IsPrefix(codec.calls, ExpectedCalls(codec.input, codec.width, codec.height))
    /\ codec.stage = "finished" =>
         codec.calls = ExpectedCalls(codec.input, codec.width, codec.height)

\* a call that carried two markers and wrote two rows of two pixels has finished
C16_Witness ==
  /\ codec.stage = "finished"
  /\ Len(codec.input) = 2
  /\ codec.input[1] # codec.input[2]
  /\ codec.width = 2
  /\ codec.height = 2
  /\ Len(codec.calls) = 6
  /\ codec.calls[5] = WriteScanlinesCall(6, 12)

(***************************************************************************)
(* C17.  On a tick the metadata-refresh trigger fires exactly when more    *)
(* than SAVE_JSON_DIFF_TIME seconds have passed since it last fired, and   *)
(* the derivative-refresh trigger exactly when more than                   *)
(* SAVE_IMAGE_DIFF_TIME seconds have passed since it last fired.           *)
(***************************************************************************)
MetadataTick == pc = "idle" /\ frames' = frames + 1
DerivativeTick == pc = "image" /\ pc' # "image"

C17_Metadata ==
  MetadataTick =>
    ((last_op' # "no_refresh") <=> (now - json_save_time > SAVE_JSON_DIFF_TIME))

C17_Derivative ==
  DerivativeTick =>
    ((pc' = "loop") <=> (now - image_save_time > SAVE_IMAGE_DIFF_TIME))

C17_TriggersAfterThreshold == [][C17_Metadata /\ C17_Derivative]_vars

(***************************************************************************)
(* C18.  When the metadata-refresh trigger fires and the timestamp of the  *)
(* manifest file can be read, the reconciliation is run again only if that *)
(* timestamp has changed since it was last observed: a tick in a session   *)
(* in which nothing outside the program has touched the manifest since     *)
(* startup read it, and which already had a tick, runs no reconciliation.  *)
(***************************************************************************)
ManifestUntouched == env_events = 0 /\ frames >= 1

C18_Tick == (MetadataTick /\ ManifestUntouched) => last_op' # "reconciled"

C18_UnchangedManifestNotReconciled == [][C18_Tick]_vars

(***************************************************************************)
(* C19.  The manifest decides which photos exist, during a session too.    *)
(* After a metadata refresh has reconciled the manifest it read, the id    *)
(* list in memory, the photo store and the rewritten manifest hold exactly *)
(* the ids of that manifest, in its order: an entry added from outside is  *)
(* not erased and an entry removed from outside is not written back.       *)
(* Stated for refreshes after which every record carries the id it is      *)
(* filed under.                                                            *)
(***************************************************************************)
IdSequence(m) == [i \in 1..Len(m) |-> m[i].id]
IdsIntact(photos) == \A k \in DOMAIN photos : photos[k].photo_id = k

C19_Reconcile ==
  (ReconcileStep /\ pc' = "image" /\ IdsIntact(gui_photo_data_lst')) =>
    /\ photo_id_lst' = IdSequence(manifest)
    /\ IdSequence(manifest') = IdSequence(manifest)
    /\ photo_store'.state = "ok"
    /\ [i \in 1..Len(photo_store'.data) |-> photo_store'.data[i].photo_id]
         = IdSequence(manifest)

C19_ManifestIsSourceOfTruth == [][C19_Reconcile]_vars

(***************************************************************************)
(* C21.  Whenever a derivative pass finds a photo stale and regenerates    *)
(* its derivatives, the two files are made from the original source file   *)
(* of the record, in every branch of the staleness decision (no entry,     *)
(* stored timestamp earlier, timestamp unreadable), never from a           *)
(* recompressed image held in memory.                                      *)
(***************************************************************************)
C21_Pass ==
  \A id \in todo :
    (PassStep(id) /\ last_op' = "regenerated") =>
      /\ HasKey(derived', id)
      /\ derived'[id] = FromOriginal(gui_photo_data_lst[id].file_name)

C21_FromOriginalSource == [][C21_Pass]_vars

(***************************************************************************)
(* C22.  For a new id whose EXIF extraction succeeds, the record the       *)
(* startup merge makes has year, month, day, hour and minutes equal to the *)
(* year, month, day, hour and minute of the original capture date-time     *)
(* when the file carries one, and all five absent when it carries none;    *)
(* its title and its camera body are absent.                               *)
(***************************************************************************)
NewWithExif(original, imp) ==
  /\ ~HasKey(original, imp.id)
  /\ ~ExifFails(imp.file_name)

C22_Startup ==
  StartupStep =>
    LET original == load_photo_data_opt(photo_store)
        merged == merge_photo_data_based_and_import_photo_data(original, manifest, files)
    IN \A i \in 1..Len(manifest) :
         NewWithExif(original, manifest[i]) =>
           LET r == merged.data[i]
               dt == file_at(files, manifest[i].file_name).exif[1].date_time_original
           IN /\ r.title = None
              /\ r.body = None
              /\ IF dt = None
                   THEN /\ r.year = None /\ r.month = None /\ r.day = None
                        /\ r.hour = None /\ r.minutes = None
                   ELSE /\ r.year = Some(dt[1].year)
                        /\ r.month = Some(dt[1].month)
                        /\ r.day = Some(dt[1].day)
                        /\ r.hour = Some(dt[1].hour)
                        /\ r.minutes = Some(dt[1].minute)

C22_DateTimeComponents == [][C22_Startup]_vars

(***************************************************************************)
(* C23.  The lens of a new id whose EXIF extraction succeeds is            *)
(* "maker model" when the file carries both the lens maker and the lens    *)
(* model, the maker when it carries only the maker, the model when it      *)
(* carries only the model, and absent when it carries neither.             *)
(***************************************************************************)
ExpectedLens(maker, model) ==
  IF maker # None /\ model # None THEN Some(maker[1] \o " " \o model[1])
  ELSE IF maker # None THEN maker
  ELSE IF model # None THEN model
  ELSE None

C23_Startup ==
  StartupStep =>
    LET original == load_photo_data_opt(photo_store)
        merged == merge_photo_data_based_and_import_photo_data(original, manifest, files)
    IN \A i \in 1..Len(manifest) :
         NewWithExif(original, manifest[i]) =>
           LET tags == file_at(files, manifest[i].file_name).exif[1]
           IN merged.data[i].lens = ExpectedLens(tags.lens_make, tags.lens_model)

C23_Lens == [][C23_Startup]_vars

(***************************************************************************)
(* C24.  When a click on a check box changes the membership of the         *)
(* selected photo, every group whose membership changed (photo added or    *)
(* photo removed) is at the front of the group id list afterwards, the     *)
(* other groups follow in their previous relative order, the new list is   *)
(* a permutation of the old one, and an added photo id is appended at the  *)
(* end of the group's photo_id_list, where it was not before.              *)
(***************************************************************************)
ToggleStep == pc = "ui" /\ pc' = "idle" /\ last_op' = "membership"

MembershipChanged ==
  {g \in DOMAIN gui_group_data_lst :
     gui_group_data_lst'[g].photo_id_list # gui_group_data_lst[g].photo_id_list}

IsMember(id, lst) == \E j \in 1..Len(lst) : lst[j] = id

C24_Toggle ==
  ToggleStep =>
    /\ \A i \in 1..Len(group_id_lst') :
         i <= Cardinality(MembershipChanged) => group_id_lst'[i] \in MembershipChanged
    /\ SelectSeq(group_id_lst', LAMBDA g : g \notin MembershipChanged)
         = SelectSeq(group_id_lst, LAMBDA g : g \notin MembershipChanged)
    /\ Len(group_id_lst') = Len(group_id_lst)
    /\ \A g \in DOMAIN gui_group_data_lst :
         IsMember(g, group_id_lst') <=> IsMember(g, group_id_lst)
    /\ \A g \in MembershipChanged :
         ~IsMember(now_id, gui_group_data_lst[g].photo_id_list) =>
           gui_group_data_lst'[g].photo_id_list
             = Append(gui_group_data_lst[g].photo_id_list, now_id)

C24_ChangedGroupsPromoted == [][C24_Toggle]_vars

(***************************************************************************)
(* C25.  Group ids are unique.  No step of the program puts an id into the *)
(* group id list a second time, and creating a group leaves the record of  *)
(* every group that is already in the group map as it was.                 *)
(***************************************************************************)
NoDuplicates(lst) == \A i, j \in 1..Len(lst) : lst[i] = lst[j] => i = j

C25_Step ==
  /\ NoDuplicates(group_id_lst) => NoDuplicates(group_id_lst')
  /\ MakeStep =>
       \A g \in DOMAIN gui_group_data_lst :
         /\ HasKey(gui_group_data_lst', g)
         /\ gui_group_data_lst'[g] = gui_group_data_lst[g]

C25_GroupIdsUnique == [][C25_Step]_vars

(***************************************************************************)
(* C26.  Every group record of the group map and every group record of the *)
(* group store has a non-empty title and a non-empty description, whatever *)
(* groups were created or edited and whatever was reconciled and saved.    *)
(* Stated for the states in which no group id is listed twice.             *)
(***************************************************************************)
C26_Fields ==
  /\ \A g \in DOMAIN gui_group_data_lst :
       gui_group_data_lst[g].title # "" /\ gui_group_data_lst[g].description # ""
  /\ group_store.state = "ok" =>
       \A i \in 1..Len(group_store.data) :
         group_store.data[i].title # "" /\ group_store.data[i].description # ""

C26_RequiredFields == NoDuplicates(group_id_lst) => C26_Fields

(***************************************************************************)
(* C27.  After startup every id of the photo id list is a key of the photo *)
(* map and every id of the group id list is a key of the group map, so no  *)
(* save (periodic, on the save button, on close) aborts for want of a      *)
(* record; also when EXIF extraction failed for a manifest entry at        *)
(* startup.                                                                *)
(***************************************************************************)
C27_Listed ==
  pc # "init" =>
    /\ AllKeys(photo_id_lst, gui_photo_data_lst)
    /\ AllKeys(group_id_lst, gui_group_data_lst)

C27_Saves ==
  \/ ReconcileStep
  \/ pc = "ui" /\ last_op' = "saved"
  \/ pc = "idle" /\ pc' \in {"closed", "crashed"} /\ frames' = frames

C27_Step == (C27_Saves => pc' # "crashed") /\ C27_Listed /\ C27_Listed'

C27_ListedIdsHaveRecords == [][C27_Step]_vars

====
